---- MODULE Spec2Model ----
(***************************************************************************)
(* A model of splat-transform: the action pipeline (processDataTable), the *)
(* command-line parser (parseArguments) and the run of the CLI (main).     *)
(*                                                                         *)
(* Numbers.  A JavaScript number is a record: a finite value, NaN, one of  *)
(* the two infinities, or undefined (the read of a missing row field).     *)
(* Finite values are fixed-point integers:                                 *)
(*   - linear quantities (positions, translation offsets, scale factors,  *)
(*     the value of a filterByValue, lod, f_rest) count twelfths, so that  *)
(*     1.0 is Num(12) and 0.5 is Num(6);                                   *)
(*   - logarithmic quantities (the raw scale_* and opacity columns) count  *)
(*     multiples of ln 2;                                                  *)
(*   - the raw f_dc_* columns count multiples of 1 / (12 * SH_C0).         *)
(* The inputs drawn by the specifications are those on which Math.log,     *)
(* the logit and the products are exact in these units.                    *)
(***************************************************************************)
EXTENDS Integers, Sequences, FiniteSets, TLC

VARIABLES
    st,         \* processDataTable: heap of buffers, dataTable, result, ...
    input0,     \* the rows of the table as it was passed to processDataTable
    log,        \* the actions processDataTable has applied so far, in order
    prev,       \* the state before the last action applied
    cli,        \* parseArguments: the files parsed so far, the error thrown
    run,        \* main: where it stands, its inputs, what it logged and wrote
    ply,        \* decompress-ply: the PLY read, the answer of the detector
    rot,        \* RotateSH: the instances, the buffers, the scratch buffer
    dev         \* deviceCreator: its calls, the device cached, the devices made

pipeVars == <<st, input0, log, prev>>

\* the variables of the parts that read nothing of the tables
idleVars == <<ply, rot, dev>>

vars == <<st, input0, log, prev, cli, run, ply, rot, dev>>

\* cli and run while parseArguments and main are not running
CliIdle == [pc |-> "idle"]

RunIdle == [pc |-> "idle"]

\* ply and rot while the reader and RotateSH are not running
PlyIdle == [pc |-> "idle"]

RotIdle == [pc |-> "idle"]

\* dev while main has made no deviceCreator
DevIdle == [pc |-> "idle"]

Idle == ply = PlyIdle /\ rot = RotIdle /\ dev = DevIdle

\* ------------------------------------------------------------------ bounds

MaxRows == 2

MaxActions == 2

\* 1.0 in twelfths
Unit == 2 * 6

\* ----------------------------------------------------------------- numbers

Num(n) == [k |-> "num", v |-> n]

NaN == [k |-> "nan", v |-> 0]

PosInf == [k |-> "inf", v |-> 1]

NegInf == [k |-> "inf", v |-> -1]

Undefined == [k |-> "undef", v |-> 0]

Null == [k |-> "null", v |-> 0]

\* Number(x) of a value read from a row: undefined converts to NaN
ToNum(a) == IF a.k = "undef" THEN NaN ELSE a

isFinite(a) == ToNum(a).k = "num"

isNaN(a) == ToNum(a).k = "nan"

\* the sign of a non-NaN number: -1, 0, 1
Sign(a) == IF a.v < 0 THEN -1 ELSE IF a.v > 0 THEN 1 ELSE 0

\* a < b of JavaScript: false when either side is NaN
Lt(a, b) ==
    LET x == ToNum(a)
        y == ToNum(b)
    IN  /\ x.k # "nan"
        /\ y.k # "nan"
        /\ IF x.k = "num" /\ y.k = "num" THEN x.v < y.v
           ELSE IF x.k = "inf" /\ y.k = "inf" THEN x.v < y.v
           ELSE IF x.k = "inf" THEN x.v < 0
           ELSE y.v > 0

\* a === b of JavaScript on numbers (NaN equals nothing)
StrictEq(a, b) == a.k # "nan" /\ b.k # "nan" /\ a = b

Lte(a, b) == Lt(a, b) \/ (StrictEq(ToNum(a), ToNum(b)) /\ ~isNaN(a))

\* a + b
AddV(a, b) ==
    LET x == ToNum(a)
        y == ToNum(b)
    IN  IF x.k = "nan" \/ y.k = "nan" THEN NaN
        ELSE IF x.k = "inf" /\ y.k = "inf" THEN (IF x.v = y.v THEN x ELSE NaN)
        ELSE IF x.k = "inf" THEN x
        ELSE IF y.k = "inf" THEN y
        ELSE Num(x.v + y.v)

\* a * b where a and b count twelfths
MulV(a, b) ==
    LET x == ToNum(a)
        y == ToNum(b)
    IN  IF x.k = "nan" \/ y.k = "nan" THEN NaN
        ELSE IF x.k = "inf" \/ y.k = "inf"
             THEN (IF Sign(x) * Sign(y) = 0 THEN NaN
                   ELSE IF Sign(x) * Sign(y) > 0 THEN PosInf ELSE NegInf)
        ELSE Num((x.v * y.v) \div Unit)

RECURSIVE Pow2(_)
Pow2(n) == IF n <= 0 THEN 1 ELSE 2 * Pow2(n - 1)

\* k with p / q = 2^k, for positive p and q whose quotient is a power of two
RECURSIVE Log2Q(_, _)
Log2Q(p, q) ==
    IF p = q THEN 0
    ELSE IF p > q THEN 1 + Log2Q(p, 2 * q)
    ELSE Log2Q(2 * p, q) - 1

\* Math.log(a): a counts twelfths, the result counts multiples of ln 2
MathLog(a) ==
    LET x == ToNum(a)
    IN  IF x.k = "nan" THEN NaN
        ELSE IF x.k = "inf" THEN (IF x.v > 0 THEN PosInf ELSE NaN)
        ELSE IF x.v < 0 THEN NaN
        ELSE IF x.v = 0 THEN NegInf
        ELSE Num(Log2Q(x.v, Unit))

\* Math.exp(a): a counts multiples of ln 2, the result counts twelfths
MathExp(a) ==
    LET x == ToNum(a)
    IN  IF x.k = "nan" THEN NaN
        ELSE IF x.k = "inf" THEN (IF x.v > 0 THEN PosInf ELSE Num(0))
        ELSE IF x.v >= 0 THEN Num(Unit * Pow2(x.v))
        ELSE Num(Unit \div Pow2(-x.v))

\* --------------------------------------------------- the value transforms

\* shNames[i + 1] is `f_rest_${i}`
shNames ==
  <<
    "f_rest_0", "f_rest_1", "f_rest_2", "f_rest_3", "f_rest_4",
    "f_rest_5", "f_rest_6", "f_rest_7", "f_rest_8", "f_rest_9",
    "f_rest_10", "f_rest_11", "f_rest_12", "f_rest_13", "f_rest_14",
    "f_rest_15", "f_rest_16", "f_rest_17", "f_rest_18", "f_rest_19",
    "f_rest_20", "f_rest_21", "f_rest_22", "f_rest_23", "f_rest_24",
    "f_rest_25", "f_rest_26", "f_rest_27", "f_rest_28", "f_rest_29",
    "f_rest_30", "f_rest_31", "f_rest_32", "f_rest_33", "f_rest_34",
    "f_rest_35", "f_rest_36", "f_rest_37", "f_rest_38", "f_rest_39",
    "f_rest_40", "f_rest_41", "f_rest_42", "f_rest_43", "f_rest_44"
  >>

\* v => Math.log(v / (1 - v)): v counts twelfths, the result multiples of ln 2
Logit(a) ==
    LET x == ToNum(a)
    IN  IF x.k # "num" THEN NaN
        ELSE IF x.v < 0 \/ x.v > Unit THEN NaN
        ELSE IF x.v = 0 THEN NegInf
        ELSE IF x.v = Unit THEN PosInf
        ELSE Num(Log2Q(x.v, Unit - x.v))

\* v => (v - 0.5) / SH_C0: v counts twelfths, the result 1 / (12 * SH_C0)
InvColor(a) == AddV(a, Num(-(Unit \div 2)))

\* v => 1 / (1 + Math.exp(-v))
Sigmoid(a) ==
    LET x == ToNum(a)
    IN  IF x.k = "nan" THEN NaN
        ELSE IF x.k = "inf" THEN (IF x.v > 0 THEN Num(Unit) ELSE Num(0))
        ELSE IF x.v >= 0 THEN Num((Unit * Pow2(x.v)) \div (1 + Pow2(x.v)))
        ELSE Num(Unit \div (1 + Pow2(-x.v)))

\* v => 0.5 + v * SH_C0
FwdColor(a) == AddV(a, Num(Unit \div 2))

ScaleNames == {"scale_0", "scale_1", "scale_2"}

ColorNames == {"f_dc_0", "f_dc_1", "f_dc_2"}

TransformedNames == {"opacity"} \cup ScaleNames \cup ColorNames

hasInverseTransform(name) == name \in TransformedNames

inverseTransforms(name, v) ==
    IF name = "opacity" THEN Logit(v)
    ELSE IF name \in ScaleNames THEN MathLog(v)
    ELSE InvColor(v)

forwardTransforms(name, v) ==
    IF name = "opacity" THEN Sigmoid(v)
    ELSE IF name \in ScaleNames THEN MathExp(v)
    ELSE FwdColor(v)

RawNames ==
    {"opacity_raw", "scale_0_raw", "scale_1_raw", "scale_2_raw",
     "f_dc_0_raw", "f_dc_1_raw", "f_dc_2_raw"}

hasRawColumn(name) == name \in RawNames

rawColumnMap(name) ==
    CASE name = "opacity_raw" -> "opacity"
      [] name = "scale_0_raw" -> "scale_0"
      [] name = "scale_1_raw" -> "scale_1"
      [] name = "scale_2_raw" -> "scale_2"
      [] name = "f_dc_0_raw" -> "f_dc_0"
      [] name = "f_dc_1_raw" -> "f_dc_1"
      [] name = "f_dc_2_raw" -> "f_dc_2"

\* ------------------------------------------------------------- DataTable
\* A table is the sequence of its columns, a column a name and the id of
\* its data buffer; the buffers live in a heap, bufs, so that two columns
\* (of two tables) can share one buffer.

NameSet(t) == {t[i].name : i \in 1..Len(t)}

columnNames(t) == [i \in 1..Len(t) |-> t[i].name]

hasColumn(t, name) == \E i \in 1..Len(t) : t[i].name = name

getColumnByName(t, name) ==
    t[CHOOSE i \in 1..Len(t) :
        t[i].name = name /\ \A j \in 1..(i - 1) : t[j].name # name]

numRows(bufs, t) == IF Len(t) = 0 THEN 0 ELSE Len(bufs[t[1].buf])

\* the row object getRow fills, one field per column of t: row i (1-based)
\* of t, read through (the table does not change while a row is in use)
getRow(bufs, t, i) == [bufs |-> bufs, t |-> t, i |-> i]

\* row[key]: undefined when the row has no such field
RowGet(row, key) ==
    IF hasColumn(row.t, key)
    THEN row.bufs[getColumnByName(row.t, key).buf][row.i]
    ELSE Undefined

\* permuteRows(indices): a new table, every column copied into a new buffer;
\* the new buffers get the ids from base on
permuteRows(bufs, t, indices, base) ==
    LET fresh == [id \in base..(base + Len(t) - 1) |->
                    [r \in 1..Len(indices) |->
                        bufs[t[id - base + 1].buf][indices[r]]]]
    IN  [cols |-> [i \in 1..Len(t) |->
                      [name |-> t[i].name, buf |-> base + i - 1]],
         bufs |-> fresh @@ bufs]

\* the state of one call of processDataTable:
\*   bufs       the heap of data buffers
\*   dataTable  the columns of the table object passed in
\*   result     the columns of the table object `result` refers to
\*   same       result === dataTable
\*   threw      the call raised an error
\*   next       the id of the next buffer allocated
\*   reports    the reports emitted through logger.output
\*   obj        the table object result refers to: 0 is the table passed
\*              in, and every table allocated since has the next number

\* an in-place change of the object result refers to
Mutate(s, cols, bufs) ==
    [s EXCEPT !.result = cols,
              !.dataTable = IF s.same THEN cols ELSE @,
              !.bufs = bufs]

\* result = a new table object
Replace(s, cols, bufs) ==
    [s EXCEPT !.result = cols, !.same = FALSE, !.bufs = bufs,
              !.obj = @ + 1]

\* buffers no table refers to any more are dropped
Collect(s) ==
    LET live == {s.dataTable[i].buf : i \in 1..Len(s.dataTable)}
                \cup {s.result[i].buf : i \in 1..Len(s.result)}
    IN  [s EXCEPT !.bufs = [id \in live |-> s.bufs[id]]]

\* the rows of result, as filter hands them to its predicate
RowsToTest(s) ==
    [i \in 1..numRows(s.bufs, s.result) |-> getRow(s.bufs, s.result, i)]

\* a filter that keeps the row after each row the predicate holds of: C18
\* tells it from filter
filterShifted(s, keep) ==
    LET n == numRows(s.bufs, s.result)
        indices == SelectSeq([i \in 1..n |-> i],
                             LAMBDA i : i > 1 /\ keep[i - 1])
        p == permuteRows(s.bufs, s.result, indices, s.next)
    IN  [Replace(s, p.cols, p.bufs) EXCEPT !.next = s.next + Len(s.result)]

\* filter(dataTable, predicate) applied to result; keep[i] is the value of
\* predicate(row, i) on row i
filter(s, keep) ==
    LET n == numRows(s.bufs, s.result)
        indices == SelectSeq([i \in 1..n |-> i], LAMBDA i : keep[i])
        p == permuteRows(s.bufs, s.result, indices, s.next)
    IN  [Replace(s, p.cols, p.bufs) EXCEPT !.next = s.next + Len(s.result)]

\* transform(result, t, Quat.IDENTITY, s): positions become p * s + t and
\* the log-scales gain ln(s), written through the existing buffers
transform(s, t, f) ==
    LET pos == <<"x", "y", "z">>
        WriteCol(bufs, name, g(_)) ==
            IF hasColumn(s.result, name)
            THEN LET id == getColumnByName(s.result, name).buf
                 IN  [bufs EXCEPT ![id] = [r \in 1..Len(@) |-> g(@[r])]]
            ELSE bufs
        b1 == WriteCol(s.bufs, "x", LAMBDA v : AddV(MulV(v, f), t[1]))
        b2 == WriteCol(b1, "y", LAMBDA v : AddV(MulV(v, f), t[2]))
        b3 == WriteCol(b2, "z", LAMBDA v : AddV(MulV(v, f), t[3]))
        b4 == WriteCol(b3, "scale_0", LAMBDA v : AddV(v, MathLog(f)))
        b5 == WriteCol(b4, "scale_1", LAMBDA v : AddV(v, MathLog(f)))
        b6 == WriteCol(b5, "scale_2", LAMBDA v : AddV(v, MathLog(f)))
    IN  Mutate(s, s.result, b6)

Vec3Zero == <<Num(0), Num(0), Num(0)>>

\* ------------------------------------------------------ processDataTable

CaseTranslate(s, a) == transform(s, a.value, Num(Unit))

\* a scale that leaves the table as it is: C1 tells it from CaseScale
CaseScaleIgnored(s, a) == transform(s, Vec3Zero, Num(Unit))

CaseScale(s, a) == transform(s, Vec3Zero, a.value)

infOk == {"opacity"}

negInfOk == {"scale_0", "scale_1", "scale_2"}

\* the predicate of filterNaN over the column names in columnNames
NaNPredicate(names, row) ==
    \A i \in 1..Len(names) :
        LET key == names[i]
            value == RowGet(row, key)
        IN  \/ isFinite(value)
            \/ value = NegInf /\ (key \in infOk \/ key \in negInfOk)
            \/ value = PosInf /\ key \in infOk

\* the column names filterNaN iterates over
NaNColumnNames(s) == columnNames(s.dataTable)

CaseFilterNaN(s, a) ==
    LET names == NaNColumnNames(s)
        predicate(row, rowIndex) == NaNPredicate(names, row)
        rows == RowsToTest(s)
    IN  filter(s, [i \in DOMAIN rows |-> predicate(rows[i], i)])

Comparators == {"lt", "lte", "gt", "gte", "eq", "neq"}

\* Predicates[comparator] ?? (() => true), applied to row[columnName], value
Predicates(comparator, x, value) ==
    CASE comparator = "lt" -> Lt(x, value)
      [] comparator = "lte" -> Lte(x, value)
      [] comparator = "gt" -> Lt(value, x)
      [] comparator = "gte" -> Lte(value, x)
      [] comparator = "eq" -> StrictEq(x, value)
      [] comparator = "neq" -> ~StrictEq(x, value)
      [] OTHER -> TRUE

\* the column compared and the value it is compared with
FilterColumn(a) ==
    IF hasRawColumn(a.columnName) THEN rawColumnMap(a.columnName)
    ELSE a.columnName

\* a threshold never passed through the inverse transform: C6 tells it from
\* FilterValue
FilterValueUnconverted(a) == a.value

FilterValue(a) ==
    IF hasRawColumn(a.columnName) THEN a.value
    ELSE IF hasInverseTransform(a.columnName)
         THEN inverseTransforms(a.columnName, a.value)
    ELSE a.value

CaseFilterByValue(s, a) ==
    LET columnName == FilterColumn(a)
        value == FilterValue(a)
        predicate(row, rowIndex) ==
            Predicates(a.comparator, RowGet(row, columnName), value)
        rows == RowsToTest(s)
    IN  filter(s, [i \in DOMAIN rows |-> predicate(rows[i], i)])

\* shNames.findIndex(v => !t.hasColumn(v)), 0-based, -1 when none is missing
FirstMissing(t) ==
    IF \A i \in 1..Len(shNames) : hasColumn(t, shNames[i]) THEN -1
    ELSE (CHOOSE i \in 1..Len(shNames) :
            /\ ~hasColumn(t, shNames[i])
            /\ \A j \in 1..(i - 1) : hasColumn(t, shNames[j])) - 1

\* { '9': 1, '24': 2, '-1': 3 }[first missing] ?? 0
BandsOf(t) ==
    LET f == FirstMissing(t)
    IN  IF f = 9 THEN 1 ELSE IF f = 24 THEN 2 ELSE IF f = -1 THEN 3 ELSE 0

\* the band count filterBands takes as that of its input
InputBands(s) == BandsOf(s.dataTable)

\* [0, 3, 8, 15][bands]
Coeffs(bands) == <<0, 3, 8, 15>>[bands + 1]

\* the name map of filterBands: its keys, and map[name] ("" for null)
BandMapKeys(inputCoeffs) ==
    {shNames[i + j * inputCoeffs + 1] : i \in 0..(inputCoeffs - 1), j \in 0..2}

BandMap(inputCoeffs, outputCoeffs, name) ==
    LET ij == CHOOSE p \in (0..(inputCoeffs - 1)) \X (0..2) :
                  shNames[p[1] + p[2] * inputCoeffs + 1] = name
    IN  IF ij[1] < outputCoeffs
        THEN shNames[ij[1] + ij[2] * outputCoeffs + 1]
        ELSE ""

CaseFilterBands(s, a) ==
    LET inputBands == InputBands(s)
        outputBands == a.value
        inputCoeffs == Coeffs(inputBands)
        outputCoeffs == Coeffs(outputBands)
        keys == BandMapKeys(inputCoeffs)
        mapped == [i \in 1..Len(s.result) |->
                     IF s.result[i].name \in keys
                     THEN [name |-> BandMap(inputCoeffs, outputCoeffs,
                                            s.result[i].name),
                           buf |-> s.result[i].buf]
                     ELSE s.result[i]]
    IN  IF outputBands < inputBands
        THEN Replace(s, SelectSeq(mapped, LAMBDA c : c.name # ""), s.bufs)
        ELSE s

CaseParam(s, a) == s

\* 2^24: every integer up to it is a float32 number, and from there to 2^25
\* every even one
Float32Exact == 4096 * 4096

\* the number a Float32Array keeps when an integer below 2^25 is stored in
\* it: an odd integer above 2^24 lies halfway between two float32 numbers
\* and becomes the one with the even significand
Float32Stored(a) ==
    IF a.k # "num" \/ a.v % Unit # 0 THEN a
    ELSE IF a.v <= Float32Exact * Unit /\ -a.v <= Float32Exact * Unit THEN a
    ELSE IF (a.v \div Unit) % 2 = 0 THEN a
    ELSE IF (a.v \div Unit) % 4 = 1 THEN Num(a.v - Unit)
    ELSE Num(a.v + Unit)

\* result with a zero-filled lod column added when it has none
\* a lod column added without rows: C26 tells it from LodAdded
LodAddedEmpty(s) ==
    IF hasColumn(s.result, "lod") THEN s
    ELSE [Mutate(s, Append(s.result, [name |-> "lod", buf |-> s.next]),
                 (s.next :> <<>>) @@ s.bufs)
          EXCEPT !.next = s.next + 1]

LodAdded(s) ==
    IF hasColumn(s.result, "lod") THEN s
    ELSE [Mutate(s, Append(s.result, [name |-> "lod", buf |-> s.next]),
                 (s.next :> [r \in 1..numRows(s.bufs, s.result) |-> Num(0)])
                     @@ s.bufs)
          EXCEPT !.next = s.next + 1]

\* the data of the lod column after fill(value)
LodFill(data, value) == [r \in 1..Len(data) |-> Float32Stored(value)]

CaseLod(s, a) ==
    LET added == LodAdded(s)
        lod == getColumnByName(added.result, "lod").buf
    IN  [added EXCEPT !.bufs[lod] = LodFill(@, a.value)]

\* a summary that leaves the first column in reverse order: C22 tells it
\* from CaseSummary
CaseSummaryReordering(s, a) ==
    [s EXCEPT !.reports = @ + 1,
              !.bufs[s.result[1].buf] =
                  [r \in 1..Len(@) |-> @[Len(@) + 1 - r]]]

\* computeSummary and formatMarkdown read the table; logger.output emits
\* the report
CaseSummary(s, a) == [s EXCEPT !.reports = @ + 1]

\* a >= b of JavaScript
Gte(a, b) == Lte(b, a)

\* a box that keeps no row on its faces: C17 tells it from CaseFilterBox
CaseFilterBoxOpen(s, a) ==
    LET predicate(row, rowIndex) ==
            /\ Lt(a.min[1], RowGet(row, "x")) /\ Lt(RowGet(row, "x"), a.max[1])
            /\ Lt(a.min[2], RowGet(row, "y")) /\ Lt(RowGet(row, "y"), a.max[2])
            /\ Lt(a.min[3], RowGet(row, "z")) /\ Lt(RowGet(row, "z"), a.max[3])
        rows == RowsToTest(s)
    IN  filter(s, [i \in DOMAIN rows |-> predicate(rows[i], i)])

CaseFilterBox(s, a) ==
    LET predicate(row, rowIndex) ==
            /\ Gte(RowGet(row, "x"), a.min[1])
            /\ Lte(RowGet(row, "x"), a.max[1])
            /\ Gte(RowGet(row, "y"), a.min[2])
            /\ Lte(RowGet(row, "y"), a.max[2])
            /\ Gte(RowGet(row, "z"), a.min[3])
            /\ Lte(RowGet(row, "z"), a.max[3])
        rows == RowsToTest(s)
    IN  filter(s, [i \in DOMAIN rows |-> predicate(rows[i], i)])

\* the visibility score of a row: sigmoid(opacity) times the volume
\* exp(scale_0) * exp(scale_1) * exp(scale_2), the exponential of the sum
Score(row) ==
    MulV(Sigmoid(RowGet(row, "opacity")),
         MathExp(AddV(AddV(RowGet(row, "scale_0"), RowGet(row, "scale_1")),
                      RowGet(row, "scale_2"))))

\* sorted with i put after every index whose score is not lower
RECURSIVE InsertByScore(_, _, _)
InsertByScore(sorted, i, score) ==
    IF sorted = <<>> THEN <<i>>
    ELSE IF Lt(score[Head(sorted)], score[i]) THEN <<i>> \o sorted
    ELSE <<Head(sorted)>> \o InsertByScore(Tail(sorted), i, score)

\* the indices 1..n by descending score, equal scores in index order
RECURSIVE SortByScore(_, _)
SortByScore(n, score) ==
    IF n = 0 THEN <<>>
    ELSE InsertByScore(SortByScore(n - 1, score), n, score)

\* sortByVisibility(result, indices): indices as it leaves them
sortByVisibility(s) ==
    SortByScore(numRows(s.bufs, s.result),
                [i \in 1..numRows(s.bufs, s.result) |->
                    Score(getRow(s.bufs, s.result, i))])

MathMin(a, b) == IF a < b THEN a ELSE b

MathMax(a, b) == IF a > b THEN a ELSE b

\* Math.floor(n / d), which C19 tells from MathRound
MathFloor(n, d) == n \div d

\* Math.round(n / d) for d > 0: the nearest integer, halves upwards
MathRound(n, d) == (2 * n + d) \div (2 * d)

\* processAction.percent ?? 100
PercentOr100(a) == IF a.percent = Null THEN Num(100 * Unit) ELSE a.percent

\* keepCount, in twelfths
keepCount(a, n) ==
    IF a.count # Null
    THEN MathMax(0, MathMin(a.count.v, n * Unit))
    ELSE MathMax(0, MathRound(n * PercentOr100(a).v, 100 * Unit) * Unit)

\* indices.subarray(0, end): end is truncated and clamped to the length
subarray(indices, end) ==
    SubSeq(indices, 1, MathMin(end \div Unit, Len(indices)))

\* the rows kept without ranking them: C20 tells it from
\* CaseFilterVisibility
CaseFilterVisibilityUnsorted(s, a) ==
    LET n == numRows(s.bufs, s.result)
        p == permuteRows(s.bufs, s.result,
                         subarray([i \in 1..n |-> i], keepCount(a, n)),
                         s.next)
    IN  [Replace(s, p.cols, p.bufs) EXCEPT !.next = s.next + Len(s.result)]

CaseFilterVisibility(s, a) ==
    LET n == numRows(s.bufs, s.result)
        p == permuteRows(s.bufs, s.result,
                         subarray(sortByVisibility(s), keepCount(a, n)),
                         s.next)
    IN  [Replace(s, p.cols, p.bufs) EXCEPT !.next = s.next + Len(s.result)]

\* -v
NegV(a) == MulV(a, Num(-Unit))

\* column name of result, row r
ValueAt(s, name, r) == s.bufs[getColumnByName(s.result, name).buf][r]

\* bufs with the data of column name of result replaced by data
WithData(s, bufs, name, data) ==
    IF hasColumn(s.result, name)
    THEN [bufs EXCEPT ![getColumnByName(s.result, name).buf] = data]
    ELSE bufs

\* one component of a rotated vector or quaternion: a sum of products of
\* all the components, NaN as soon as one of them is not finite
Rotated(s, names, r, v) ==
    IF \A i \in 1..Len(names) : isFinite(ValueAt(s, names[i], r)) THEN v
    ELSE NaN

Position == <<"x", "y", "z">>

Quaternion == <<"rot_0", "rot_1", "rot_2", "rot_3">>

\* the half turn about z, in degrees
HalfTurn == <<Num(0), Num(0), Num(180 * Unit)>>

\* the sign the half turn about z gives SH coefficient i (from 0) of a
\* channel: -1 for the odd orders m of bands 1, 2 and 3
HalfTurnSign(i) ==
    <<-1, 1, -1, 1, -1, 1, -1, 1, -1, 1, -1, 1, -1, 1, -1>>[i + 1]

\* the coefficients of the band of coefficient i (from 0), within a channel
BandOfCoeff(i) == IF i < 3 THEN 0..2 ELSE IF i < 8 THEN 3..7 ELSE 8..14

\* the f_rest columns of the band and channel of f_rest column k (from 0),
\* in a table of numCoeffs coefficients per channel
BandColumns(k, numCoeffs) ==
    [i \in 1..Cardinality(BandOfCoeff(k % numCoeffs)) |->
        shNames[(k \div numCoeffs) * numCoeffs
                + (CHOOSE m \in BandOfCoeff(k % numCoeffs) :
                     Cardinality({n \in BandOfCoeff(k % numCoeffs) : n < m})
                         = i - 1) + 1]]

\* the data of f_rest column k (from 0) after the half turn
RotatedRest(s, k, numCoeffs) ==
    [r \in 1..numRows(s.bufs, s.result) |->
        Rotated(s, BandColumns(k, numCoeffs), r,
                MulV(ValueAt(s, shNames[k + 1], r),
                     Num(HalfTurnSign(k % numCoeffs) * Unit)))]

RECURSIVE RotateRest(_, _, _, _)
RotateRest(s, bufs, k, numCoeffs) ==
    IF k = 0 THEN bufs
    ELSE RotateRest(s, WithData(s, bufs, shNames[k],
                                RotatedRest(s, k - 1, numCoeffs)),
                    k - 1, numCoeffs)

\* transform(result, Vec3.ZERO, q, 1) for q the half turn about z: the
\* positions become (-x, -y, z), the rotations q * (rot_0, rot_1, rot_2,
\* rot_3) = (-rot_3, -rot_2, rot_1, rot_0), and the SH coefficients of
\* every band are projected through the rotation of the band, written
\* through the existing buffers
halfTurn(s) ==
    LET rows == 1..numRows(s.bufs, s.result)
        P(name, r) == ValueAt(s, name, r)
        b1 == WithData(s, s.bufs, "x",
                  [r \in rows |-> Rotated(s, Position, r, NegV(P("x", r)))])
        b2 == WithData(s, b1, "y",
                  [r \in rows |-> Rotated(s, Position, r, NegV(P("y", r)))])
        b3 == WithData(s, b2, "z",
                  [r \in rows |-> Rotated(s, Position, r, P("z", r))])
        b4 == WithData(s, b3, "rot_0",
                  [r \in rows |->
                      Rotated(s, Quaternion, r, NegV(P("rot_3", r)))])
        b5 == WithData(s, b4, "rot_1",
                  [r \in rows |->
                      Rotated(s, Quaternion, r, NegV(P("rot_2", r)))])
        b6 == WithData(s, b5, "rot_2",
                  [r \in rows |-> Rotated(s, Quaternion, r, P("rot_1", r))])
        b7 == WithData(s, b6, "rot_3",
                  [r \in rows |-> Rotated(s, Quaternion, r, P("rot_0", r))])
    IN  Mutate(s, s.result,
               RotateRest(s, b7, 3 * Coeffs(BandsOf(s.result)),
                          Coeffs(BandsOf(s.result))))

\* the rotations of the model are no rotation and the half turn about z,
\* whose matrix and quaternion have integer entries
CaseRotate(s, a) ==
    IF a.value = HalfTurn THEN halfTurn(s)
    ELSE transform(s, Vec3Zero, Num(Unit))

\* v ** 2
SquareV(v) == MulV(v, v)

CaseFilterSphere(s, a) ==
    LET radiusSq == MulV(a.radius, a.radius)
        predicate(row, rowIndex) ==
            Lt(AddV(AddV(SquareV(AddV(RowGet(row, "x"), NegV(a.center[1]))),
                         SquareV(AddV(RowGet(row, "y"), NegV(a.center[2])))),
                    SquareV(AddV(RowGet(row, "z"), NegV(a.center[3])))),
               radiusSq)
        rows == RowsToTest(s)
    IN  filter(s, [i \in DOMAIN rows |-> predicate(rows[i], i)])

\* the bits of a coordinate of the Morton grid
MortonBits == 10

\* the finite values of column name of result
FiniteValues(s, name) ==
    {ValueAt(s, name, r).v : r \in {q \in 1..numRows(s.bufs, s.result) :
                                      isFinite(ValueAt(s, name, q))}}

SetMin(S) == CHOOSE m \in S : \A n \in S : m <= n

SetMax(S) == CHOOSE m \in S : \A n \in S : m >= n

\* the cell of v on the grid of 2^MortonBits cells over the bounding box
\* of the axis
Quantized(v, S) ==
    IF v.k # "num" \/ S = {} \/ SetMax(S) = SetMin(S) THEN 0
    ELSE ((v.v - SetMin(S)) * (Pow2(MortonBits) - 1))
             \div (SetMax(S) - SetMin(S))

\* the bits of q, bit b going to bit 3 * b
RECURSIVE Spread(_, _)
Spread(q, bits) ==
    IF bits = 0 THEN 0 ELSE (q % 2) + 8 * Spread(q \div 2, bits - 1)

\* the Morton code of row r: the bits of the three cells interleaved, x in
\* the lowest
MortonCode(s, r) ==
    Spread(Quantized(ValueAt(s, "x", r), FiniteValues(s, "x")), MortonBits)
    + 2 * Spread(Quantized(ValueAt(s, "y", r), FiniteValues(s, "y")),
                 MortonBits)
    + 4 * Spread(Quantized(ValueAt(s, "z", r), FiniteValues(s, "z")),
                 MortonBits)

\* sortMortonOrder(result, indices): indices as it leaves them, by
\* ascending code, equal codes in index order
sortMortonOrder(s) ==
    SortByScore(numRows(s.bufs, s.result),
                [r \in 1..numRows(s.bufs, s.result) |->
                    Num(-MortonCode(s, r))])

\* result.permuteRowsInPlace(indices): the buffers of result overwritten
RECURSIVE PermutedInPlace(_, _, _, _)
PermutedInPlace(s, bufs, indices, i) ==
    IF i = 0 THEN bufs
    ELSE PermutedInPlace(
             s, [bufs EXCEPT ![s.result[i].buf] =
                    [r \in 1..Len(indices) |->
                        s.bufs[s.result[i].buf][indices[r]]]],
             indices, i - 1)

permuteRowsInPlace(s, indices) ==
    Mutate(s, s.result, PermutedInPlace(s, s.bufs, indices, Len(s.result)))

\* a mortonOrder through permuteRows: C23 tells it from CaseMortonOrder
CaseMortonOrderCopying(s, a) ==
    LET p == permuteRows(s.bufs, s.result, sortMortonOrder(s), s.next)
    IN  [Replace(s, p.cols, p.bufs) EXCEPT !.next = s.next + Len(s.result)]

CaseMortonOrder(s, a) == permuteRowsInPlace(s, sortMortonOrder(s))

\* one iteration of the loop of processDataTable
processAction(s, a) ==
    Collect(CASE a.kind = "translate" -> CaseTranslate(s, a)
              [] a.kind = "scale" -> CaseScale(s, a)
              [] a.kind = "filterNaN" -> CaseFilterNaN(s, a)
              [] a.kind = "filterByValue" -> CaseFilterByValue(s, a)
              [] a.kind = "filterBands" -> CaseFilterBands(s, a)
              [] a.kind = "param" -> CaseParam(s, a)
              [] a.kind = "lod" -> CaseLod(s, a)
              [] a.kind = "summary" -> CaseSummary(s, a)
              [] a.kind = "filterBox" -> CaseFilterBox(s, a)
              [] a.kind = "filterVisibility" -> CaseFilterVisibility(s, a)
              [] a.kind = "rotate" -> CaseRotate(s, a)
              [] a.kind = "filterSphere" -> CaseFilterSphere(s, a)
              [] a.kind = "mortonOrder" -> CaseMortonOrder(s, a)
              [] OTHER -> s)

\* let result = dataTable
enter(bufs, t) ==
    [bufs |-> bufs, dataTable |-> t, result |-> t, same |-> TRUE,
     threw |-> FALSE, reports |-> 0, next |-> Len(t) + 1, obj |-> 0]

\* processDataTable(dataTable, processActions), from the state of entry
RECURSIVE processLoop(_, _)
processLoop(s, processActions) ==
    IF processActions = <<>> THEN s
    ELSE processLoop(processAction(s, Head(processActions)),
                     Tail(processActions))

\* ------------------------------------------- the tables the model starts from

\* the columns decompressPly creates, in its order
GSNames ==
    <<"x", "y", "z", "f_dc_0", "f_dc_1", "f_dc_2", "opacity",
      "rot_0", "rot_1", "rot_2", "rot_3", "scale_0", "scale_1", "scale_2">>

RowSeqs(S, n) == UNION {[1..m -> S] : m \in 1..n}

\* rows: what a row holds where it differs from the default
RowBase ==
    ("x" :> Num(8 * Unit)) @@ ("y" :> Num(0)) @@ ("z" :> Num(-8 * Unit))
    @@ ("scale_0" :> Num(0)) @@ ("scale_1" :> Num(1)) @@ ("scale_2" :> Num(-1))

RowAlt ==
    ("x" :> Num(16 * Unit)) @@ ("y" :> Num(8 * Unit)) @@ ("opacity" :> Num(1))
    @@ ("scale_0" :> Num(1)) @@ ("scale_1" :> Num(2)) @@ ("f_dc_0" :> Num(6))

RowNaN == ("x" :> NaN) @@ RowBase

RowSentinels == ("opacity" :> PosInf) @@ ("scale_0" :> NegInf) @@ RowBase

RowInf == ("scale_1" :> PosInf) @@ ("opacity" :> NegInf) @@ RowBase

RowShNaN == ("f_rest_3" :> NaN) @@ RowAlt

PipeRows == {RowBase, RowAlt, RowNaN, RowSentinels, RowInf}

\* the tables processDataTable is entered with: one-band tables of all rows,
\* and tables of every band count
PipeTables ==
    {[bands |-> 1, rows |-> rows] : rows \in RowSeqs(PipeRows, MaxRows)}
    \cup {[bands |-> b, rows |-> rows] :
            b \in {0, 2, 3}, rows \in RowSeqs({RowShNaN}, MaxRows)}

\* the value of column name in row r (1-based) built from template tmpl
Cell(name, tmpl, r) ==
    IF name \in DOMAIN tmpl THEN tmpl[name]
    ELSE IF name = "rot_0" THEN Num(Unit)
    ELSE IF \E i \in 1..Len(shNames) : shNames[i] = name
         THEN Num(10 * (CHOOSE i \in 1..Len(shNames) : shNames[i] = name) + r)
    ELSE Num(0)

\* a table of the given rows with `bands` SH bands and, with lod, a lod column
TableNames(bands, lod) ==
    GSNames \o SubSeq(shNames, 1, 3 * Coeffs(bands))
            \o (IF lod THEN <<"lod">> ELSE <<>>)

MakeTable(names, rows) ==
    [bufs |-> [id \in 1..Len(names) |->
                  [r \in 1..Len(rows) |-> Cell(names[id], rows[r], r)]],
     cols |-> [i \in 1..Len(names) |-> [name |-> names[i], buf |-> i]]]

\* ------------------------------------------------------------ the pipeline

TranslateArgs == {<<Num(Unit), Num(-2 * Unit), Num(6)>>}

ScaleArgs == {Num(6), Num(2 * Unit)}

BandArgs == 0..3

PipeFilterArgs ==
    {[columnName |-> "opacity", comparator |-> "lt", value |-> Num(8)]}

\* 1, 2, and 2^24 + 1, which is not a float32 number
LodArgs == {Num(Unit), Num(2 * Unit), Num((Float32Exact + 1) * Unit)}

PipeInit ==
    /\ \E i \in PipeTables :
          LET t == MakeTable(TableNames(i.bands, FALSE), i.rows)
          IN  st = enter(t.bufs, t.cols)
    /\ input0 = st
    /\ prev = st
    /\ log = <<>>
    /\ cli = CliIdle
    /\ run = RunIdle
    /\ Idle

\* the next iteration of the loop, for the next action of processActions
Do(a) ==
    /\ prev' = st
    /\ st' = processAction(st, a)
    /\ log' = Append(log, a)
    /\ UNCHANGED <<input0, cli, run, idleVars>>

Running == Len(log) < MaxActions /\ ~st.threw

Translate ==
    /\ Running
    /\ \E v \in TranslateArgs : Do([kind |-> "translate", value |-> v])

Scale ==
    /\ Running
    /\ \E f \in ScaleArgs : Do([kind |-> "scale", value |-> f])

FilterNaN ==
    /\ Running
    /\ Do([kind |-> "filterNaN"])

FilterByValue ==
    /\ Running
    /\ \E f \in PipeFilterArgs :
          Do([kind |-> "filterByValue", columnName |-> f.columnName,
              comparator |-> f.comparator, value |-> f.value])

FilterBands ==
    /\ Running
    /\ \E n \in BandArgs : Do([kind |-> "filterBands", value |-> n])

Param ==
    /\ Running
    /\ Do([kind |-> "param", name |-> "width", value |-> "500"])

Lod ==
    /\ Running
    /\ \E n \in LodArgs : Do([kind |-> "lod", value |-> n])

Summary ==
    /\ Running
    /\ Do([kind |-> "summary"])

PipeNext ==
    \/ Translate
    \/ Scale
    \/ FilterNaN
    \/ FilterByValue
    \/ FilterBands
    \/ Param
    \/ Lod
    \/ Summary

SpecPipe == PipeInit /\ [][PipeNext]_vars

\* ------------------------------------------------- filterByValue, one call

FilterRowLow ==
    ("opacity" :> Num(-1)) @@ ("scale_0" :> Num(-1)) @@ ("f_dc_0" :> Num(-6))
    @@ ("x" :> Num(-Unit))

FilterRowMid ==
    ("opacity" :> Num(0)) @@ ("scale_0" :> Num(0)) @@ ("f_dc_0" :> Num(0))
    @@ ("x" :> Num(0))

FilterRowHigh ==
    ("opacity" :> Num(1)) @@ ("scale_0" :> Num(1)) @@ ("f_dc_0" :> Num(6))
    @@ ("x" :> Num(Unit))

FilterRowTop ==
    ("opacity" :> PosInf) @@ ("scale_0" :> PosInf) @@ ("f_dc_0" :> PosInf)
    @@ ("x" :> PosInf)

FilterRowBottom ==
    ("opacity" :> NegInf) @@ ("scale_0" :> NegInf) @@ ("f_dc_0" :> NegInf)
    @@ ("x" :> NegInf)

FilterRowNaN ==
    ("opacity" :> NaN) @@ ("scale_0" :> NaN) @@ ("f_dc_0" :> NaN)
    @@ ("x" :> NaN)

FilterRows ==
    {FilterRowLow, FilterRowMid, FilterRowHigh, FilterRowTop, FilterRowBottom,
     FilterRowNaN}

FilterColumns ==
    {"opacity", "opacity_raw", "scale_0", "scale_0_raw", "f_dc_0",
     "f_dc_0_raw", "x"}

\* "ge" stands for any string that is not one of the six comparators
FilterComparators == Comparators \cup {"ge"}

\* the values compared with: -1, 0, 1/3, 1/2, 2/3, 1, 3/2 for opacity,
\* -1, 0, 1/2, 1, 2 otherwise, and the non-finite numbers
FilterValues(columnName) ==
    {PosInf, NegInf, NaN}
    \cup (IF columnName = "opacity"
          THEN {Num(-Unit), Num(0), Num(4), Num(6), Num(8), Num(Unit), Num(18)}
          ELSE {Num(-Unit), Num(0), Num(6), Num(Unit), Num(2 * Unit)})

FilterInit ==
    /\ \E rows \in RowSeqs(FilterRows, MaxRows) :
          LET t == MakeTable(TableNames(0, FALSE), rows)
          IN  st = enter(t.bufs, t.cols)
    /\ input0 = st
    /\ prev = st
    /\ log = <<>>
    /\ cli = CliIdle
    /\ run = RunIdle
    /\ Idle

\* processDataTable(dataTable, [one filterByValue])
FilterByValueOnce ==
    /\ log = <<>>
    /\ \E c \in FilterColumns : \E cmp \in FilterComparators :
          \E v \in FilterValues(c) :
              Do([kind |-> "filterByValue", columnName |-> c,
                  comparator |-> cmp, value |-> v])

FilterNext == FilterByValueOnce

SpecFilter == FilterInit /\ [][FilterNext]_vars

\* ----------------------------------------------------- what the claims use

Last == log[Len(log)]

Stepped(kind) == Len(log) >= 1 /\ Last.kind = kind

\* the data of column name of the table s.result
ResultData(s, name) == s.bufs[getColumnByName(s.result, name).buf]

\* the rows of s.result, each the tuple of its values in column order
RowsOf(s) ==
    [r \in 1..numRows(s.bufs, s.result) |->
        [i \in 1..Len(s.result) |-> s.bufs[s.result[i].buf][r]]]

RestNames == {shNames[i] : i \in 1..Len(shNames)}

\* t holds exactly the f_rest columns of b bands
HoldsBands(t, b) ==
    NameSet(t) \cap RestNames = {shNames[i] : i \in 1..(3 * Coeffs(b))}

\* the columns of s.result that are not f_rest columns, with their data
OtherColumns(s) ==
    LET o == SelectSeq(s.result, LAMBDA c : c.name \notin RestNames)
    IN  [i \in 1..Len(o) |-> [name |-> o[i].name, data |-> s.bufs[o[i].buf]]]

\* -------------------------------------------------------------- the claims

\* the value old * f + t of a position and old + ln(f) of a log-scale, on
\* the integers: f and t count twelfths, lnf multiples of ln 2
ScaledThenMoved(old, f, t) ==
    IF old.k = "num" THEN Num((old.v * f) \div Unit + t) ELSE old

LogScaled(old, lnf) == IF old.k = "num" THEN Num(old.v + lnf) ELSE old

ScaleThenTranslate ==
    /\ Len(log) = 2
    /\ log[1].kind = "scale"
    /\ log[2].kind = "translate"

\* C1: after processDataTable(table, [scale(f), translate(v)]) every position
\* is old * f + v, every scale_0..2 is old + ln(f), and the row count is that
\* of the table passed in.
C1_ScaleThenTranslate ==
    ScaleThenTranslate =>
        LET f == log[1].value.v
            v == log[2].value
            lnf == Log2Q(f, Unit)
            n == numRows(input0.bufs, input0.result)
            pos == <<"x", "y", "z">>
        IN  /\ numRows(st.bufs, st.result) = n
            /\ \A r \in 1..n : \A c \in 1..3 :
                  ResultData(st, pos[c])[r]
                      = ScaledThenMoved(ResultData(input0, pos[c])[r], f, v[c].v)
            /\ \A r \in 1..n : \A name \in ScaleNames :
                  ResultData(st, name)[r]
                      = LogScaled(ResultData(input0, name)[r], lnf)

\* C1 witness: scale then translate ran on a row whose position is finite
\* and for which (old + v) * f differs from old * f + v
C1_Witness ==
    /\ ScaleThenTranslate
    /\ ResultData(input0, "x")[1].k = "num"
    /\ ResultData(st, "x")[1]
          # Num(((ResultData(input0, "x")[1].v + log[2].value[1].v)
                    * log[1].value.v) \div Unit)
    /\ ResultData(st, "scale_1")[1].k = "num"
    /\ ResultData(st, "scale_1")[1] # ResultData(input0, "scale_1")[1]

\* a row (its values in the column order of names) passes filterNaN
FiniteRow(names, row) ==
    \A i \in 1..Len(names) :
        \/ row[i].k = "num"
        \/ row[i].k = "inf" /\ names[i] = "opacity"
        \/ row[i] = NegInf /\ names[i] \in ScaleNames

\* C2: filterNaN keeps exactly the rows of the current table in which every
\* column of the current table is finite (opacity may be infinite, scale_0..2
\* may be -Infinity), whatever the columns of the table first passed in.
C2_FilterNaNCurrentColumns ==
    Stepped("filterNaN") =>
        /\ columnNames(st.result) = columnNames(prev.result)
        /\ RowsOf(st)
              = SelectSeq(RowsOf(prev),
                    LAMBDA row : FiniteRow(columnNames(prev.result), row))

\* C3: filterBands(n) on a current table of b > n bands leaves exactly the
\* columns f_rest_0 .. f_rest_{3c(n)-1}, column f_rest_{i + j c(n)} carrying
\* the data of f_rest_{i + j c(b)}, and nothing else changes.
C3_FilterBandsRemap ==
    Stepped("filterBands") =>
        \A b \in 1..3 :
            (HoldsBands(prev.result, b) /\ Last.value < b) =>
                LET cn == Coeffs(Last.value)
                    cb == Coeffs(b)
                IN  /\ HoldsBands(st.result, Last.value)
                    /\ \A i \in 0..(cn - 1) : \A j \in 0..2 :
                          /\ hasColumn(st.result, shNames[i + j * cn + 1])
                          /\ ResultData(st, shNames[i + j * cn + 1])
                                = ResultData(prev, shNames[i + j * cb + 1])
                    /\ OtherColumns(st) = OtherColumns(prev)
                    /\ numRows(st.bufs, st.result)
                          = numRows(prev.bufs, prev.result)

\* C4: filterBands(n) with n at least the band count of the current table
\* changes nothing: same columns, same names, same values.
C4_FilterBandsNoOp ==
    Stepped("filterBands") =>
        \A b \in 0..3 :
            (HoldsBands(prev.result, b) /\ Last.value >= b) =>
                /\ columnNames(st.result) = columnNames(prev.result)
                /\ RowsOf(st) = RowsOf(prev)

\* C5: a filterByValue whose comparator is none of lt, lte, gt, gte, eq, neq
\* makes processDataTable raise an error.
C5_UnknownComparatorThrows ==
    (Stepped("filterByValue") /\ Last.comparator \notin Comparators)
        => st.threw

\* the column and the threshold the claim names for filterByValue(col, cmp, v)
ClaimColumn(col) ==
    IF col \in RawNames THEN rawColumnMap(col) ELSE col

ClaimThreshold(col, v) ==
    IF col = "opacity" THEN Logit(v)
    ELSE IF col \in ScaleNames THEN MathLog(v)
    ELSE IF col \in ColorNames THEN InvColor(v)
    ELSE v

\* x cmp y
Compare(cmp, x, y) ==
    CASE cmp = "lt" -> Lt(x, y)
      [] cmp = "lte" -> Lt(x, y) \/ StrictEq(x, y)
      [] cmp = "gt" -> Lt(y, x)
      [] cmp = "gte" -> Lt(y, x) \/ StrictEq(x, y)
      [] cmp = "eq" -> StrictEq(x, y)
      [] cmp = "neq" -> ~StrictEq(x, y)

\* the rows of prev.result of which keep holds, keep read on the value of
\* column name
KeptWhere(name, keep(_)) ==
    LET c == CHOOSE i \in 1..Len(prev.result) : prev.result[i].name = name
    IN  SelectSeq(RowsOf(prev), LAMBDA row : keep(row[c]))

ValidFilter == Stepped("filterByValue") /\ Last.comparator \in Comparators

\* the rows kept are those whose raw value compares with the threshold
KeepsRawComparison ==
    RowsOf(st)
        = KeptWhere(ClaimColumn(Last.columnName),
              LAMBDA x : Compare(Last.comparator, x,
                             ClaimThreshold(Last.columnName, Last.value)))

\* the rows kept are those whose forward-transformed value compares with v
KeepsForwardComparison ==
    RowsOf(st)
        = KeptWhere(Last.columnName,
              LAMBDA x : Compare(Last.comparator,
                             forwardTransforms(Last.columnName, x), Last.value))

Ordering == {"lt", "lte", "gt", "gte"}

\* v lies in the range of the forward transform of the column
InForwardRange(col, v) ==
    /\ ~Lt(v, Num(0)) \/ col \in ColorNames
    /\ ~(col = "opacity" /\ Lt(Num(Unit), v))

\* C6 as stated: the rows kept are those with r[c] cmp t, and for the four
\* ordering comparators on a transformed column they are also the rows whose
\* forward-transformed value satisfies cmp against v.
C6_Original ==
    ValidFilter =>
        /\ KeepsRawComparison
        /\ (Last.comparator \in Ordering
              /\ Last.columnName \in TransformedNames)
                  => KeepsForwardComparison

\* C6 amended: the same, the second part only for v within the range of the
\* column's forward transform (0 <= v <= 1 for opacity, v >= 0 for scale_*).
C6_FilterByValue ==
    ValidFilter =>
        /\ KeepsRawComparison
        /\ (Last.comparator \in Ordering
              /\ Last.columnName \in TransformedNames
              /\ InForwardRange(Last.columnName, Last.value))
                  => KeepsForwardComparison

\* C6 witness: a transformed column compared with a value in range, some
\* rows kept and some dropped
C6_Witness ==
    /\ ValidFilter
    /\ Last.comparator = "gt"
    /\ Last.columnName = "opacity"
    /\ Last.value = Num(6)
    /\ numRows(st.bufs, st.result) >= 1
    /\ numRows(st.bufs, st.result) < numRows(prev.bufs, prev.result)

\* ---------------------------------------------------------- parseArguments
\* A string of the command line is the sequence of its characters; file
\* names, which parseArguments never looks into, are atoms.

DigitChars == <<"0", "1", "2", "3", "4", "5", "6", "7", "8", "9">>

isDigitChar(c) == \E d \in 1..Len(DigitChars) : DigitChars[d] = c

DigitOf(c) == (CHOOSE d \in 1..Len(DigitChars) : DigitChars[d] = c) - 1

AllDigits(s) == \A i \in 1..Len(s) : isDigitChar(s[i])

RECURSIVE DigitsValue(_)
DigitsValue(s) ==
    IF s = <<>> THEN 0
    ELSE 10 * DigitsValue(SubSeq(s, 1, Len(s) - 1)) + DigitOf(s[Len(s)])

RECURSIVE Pow10(_)
Pow10(n) == IF n <= 0 THEN 1 ELSE 10 * Pow10(n - 1)

\* s.indexOf(c), 1-based, 0 when c does not occur
IndexOf(s, c) ==
    IF \E i \in 1..Len(s) : s[i] = c
    THEN CHOOSE i \in 1..Len(s) : s[i] = c /\ \A j \in 1..(i - 1) : s[j] # c
    ELSE 0

RECURSIVE trimStart(_)
trimStart(s) ==
    IF s # <<>> /\ Head(s) = " " THEN trimStart(Tail(s)) ELSE s

RECURSIVE trimEnd(_)
trimEnd(s) ==
    IF s # <<>> /\ s[Len(s)] = " "
    THEN trimEnd(SubSeq(s, 1, Len(s) - 1)) ELSE s

trim(s) == trimEnd(trimStart(s))

RECURSIVE split(_, _)
split(s, sep) ==
    LET i == IndexOf(s, sep)
    IN  IF i = 0 THEN <<s>>
        ELSE <<SubSeq(s, 1, i - 1)>> \o split(SubSeq(s, i + 1, Len(s)), sep)

endsWith(s, c) == s # <<>> /\ s[Len(s)] = c

StrInfinity == <<"I", "n", "f", "i", "n", "i", "t", "y">>

\* the value of an unsigned decimal literal (digits, with or without a
\* fraction), NaN for anything else
DecimalOf(int, frac) ==
    IF ~AllDigits(int) \/ ~AllDigits(frac) \/ (int = <<>> /\ frac = <<>>)
    THEN NaN
    ELSE Num(DigitsValue(int) * Unit
             + (DigitsValue(frac) * Unit) \div Pow10(Len(frac)))

DecimalAt(s, dot) ==
    IF dot = 0 THEN DecimalOf(s, <<>>)
    ELSE DecimalOf(SubSeq(s, 1, dot - 1), SubSeq(s, dot + 1, Len(s)))

DecimalValue(s) == DecimalAt(s, IndexOf(s, "."))

Magnitude(body) ==
    IF body = StrInfinity THEN PosInf ELSE DecimalValue(body)

WithSign(sign, u) ==
    IF u.k = "nan" THEN NaN
    ELSE IF sign = "-" THEN [u EXCEPT !.v = -@]
    ELSE u

NumberOfTrimmed(t) ==
    IF t = <<>> THEN Num(0)
    ELSE IF Head(t) \in {"-", "+"} THEN WithSign(Head(t), Magnitude(Tail(t)))
    ELSE Magnitude(t)

\* Number(s) of a string without exponent or radix prefix: the empty string
\* is 0, a signed decimal literal or Infinity its value, the rest NaN
Number(s) == NumberOfTrimmed(trim(s))

isInteger(a) == a.k = "num" /\ a.v % Unit = 0

\* what a parse function gives: a value, or the message of the error thrown
Ok(v) == [ok |-> TRUE, value |-> v]

Throw(msg) == [ok |-> FALSE, error |-> msg]

RejectNaN(result) ==
    IF isNaN(result) THEN Throw("Invalid number value") ELSE Ok(result)

parseNumber(value) == RejectNaN(Number(value))

RejectFraction(result) ==
    IF ~result.ok THEN result
    ELSE IF ~isInteger(result.value) THEN Throw("Invalid integer value")
    ELSE result

parseInteger(value) == RejectFraction(parseNumber(value))

\* the first error of the parse results in rs, Ok(their values) when none
Values(rs) ==
    IF \E i \in 1..Len(rs) : ~rs[i].ok
    THEN rs[CHOOSE i \in 1..Len(rs) :
                ~rs[i].ok /\ \A j \in 1..(i - 1) : rs[j].ok]
    ELSE Ok([i \in 1..Len(rs) |-> rs[i].value])

\* parts.map(parseNumber)
MapParseNumber(parts) ==
    Values([i \in 1..Len(parts) |-> parseNumber(parts[i])])

\* value.split(sep).map(p => p.trim())
MapTrim(parts) == [i \in 1..Len(parts) |-> trim(parts[i])]

SplitTrim(value, sep) == MapTrim(split(value, sep))

Vec3Of(parts) ==
    IF ~parts.ok THEN parts
    ELSE IF Len(parts.value) # 3 THEN Throw("Invalid Vec3 value")
    ELSE parts

parseVec3(value) == Vec3Of(MapParseNumber(split(value, ",")))

\* the words the model reads off the command line, and their spelling
Spelling ==
    [lt |-> <<"l", "t">>, lte |-> <<"l", "t", "e">>,
     gt |-> <<"g", "t">>, gte |-> <<"g", "t", "e">>,
     eq |-> <<"e", "q">>, neq |-> <<"n", "e", "q">>,
     ge |-> <<"g", "e">>, cpu |-> <<"c", "p", "u">>,
     opacity |-> <<"o", "p", "a", "c", "i", "t", "y">>]

Word(chars) ==
    IF chars = <<>> THEN ""
    ELSE IF \E w \in DOMAIN Spelling : Spelling[w] = chars
         THEN CHOOSE w \in DOMAIN Spelling : Spelling[w] = chars
    ELSE "?"

ComparatorOf(word) ==
    IF word \in {"lt", "lte", "gt", "gte", "eq", "neq"}
    THEN Ok(word)
    ELSE Throw("Invalid comparator value")

parseComparator(value) == ComparatorOf(Word(value))

\* current.processActions.push of one action made of a parsed value
Push1(value, action) == IF ~value.ok THEN value ELSE Ok(<<action>>)

\* case 'translate', case 'rotate'
OptVec3(kind, value) == Push1(value, [kind |-> kind, value |-> value.value])

\* case 'scale'
OptScale(value) == Push1(value, [kind |-> "scale", value |-> value.value])

\* case 'filter-value'
FilterValueOf(columnName, comparator, value) ==
    IF ~comparator.ok THEN comparator
    ELSE Push1(value, [kind |-> "filterByValue",
                       columnName |-> columnName,
                       comparator |-> comparator.value,
                       value |-> value.value])

OptFilterValue(parts) ==
    IF Len(parts) # 3 THEN Throw("Invalid filter-value value")
    ELSE FilterValueOf(Word(parts[1]), parseComparator(parts[2]),
                       parseNumber(parts[3]))

\* case 'filter-harmonics'
OptFilterHarmonics(shBands) ==
    IF ~shBands.ok THEN shBands
    ELSE IF shBands.value.v \div Unit \notin {0, 1, 2, 3}
         THEN Throw("Invalid filter-harmonics value")
    ELSE Ok(<<[kind |-> "filterBands", value |-> shBands.value.v \div Unit]>>)

\* case 'filter-box'
BoxDefaults == <<NegInf, NegInf, NegInf, PosInf, PosInf, PosInf>>

BoxValue(part, i) ==
    IF part = <<>> \/ part = <<"-">> THEN Ok(BoxDefaults[i])
    ELSE parseNumber(part)

FilterBoxOf(values) ==
    Push1(values, [kind |-> "filterBox",
                   min |-> SubSeq(values.value, 1, 3),
                   max |-> SubSeq(values.value, 4, 6)])

OptFilterBox(parts) ==
    IF Len(parts) # 6 THEN Throw("Invalid filter-box value")
    ELSE FilterBoxOf(Values([i \in 1..6 |-> BoxValue(parts[i], i)]))

\* case 'filter-sphere'
FilterSphereOf(values) ==
    Push1(values, [kind |-> "filterSphere",
                   center |-> SubSeq(values.value, 1, 3),
                   radius |-> values.value[4]])

OptFilterSphere(parts) ==
    IF Len(parts) # 4 THEN Throw("Invalid filter-sphere value")
    ELSE FilterSphereOf(MapParseNumber(parts))

\* case 'params'
ParamOf(parts) ==
    [kind |-> "param", name |-> parts[1],
     value |-> IF Len(parts) >= 2 THEN parts[2] ELSE <<>>]

OptParams(params) ==
    Ok([i \in 1..Len(params) |-> ParamOf(SplitTrim(params[i], "="))])

\* case 'lod'
OptLod(lod) ==
    IF ~lod.ok THEN lod
    ELSE IF Lt(lod.value, Num(0)) THEN Throw("Invalid lod value")
    ELSE Ok(<<[kind |-> "lod", value |-> lod.value]>>)

\* case 'filter-visibility'
VisibilityPercent(percent) ==
    IF ~percent.ok THEN percent
    ELSE IF Lt(percent.value, Num(0)) \/ Lt(Num(100 * Unit), percent.value)
         THEN Throw("Invalid filter-visibility percentage")
    ELSE Ok(<<[kind |-> "filterVisibility", count |-> Null,
               percent |-> percent.value]>>)

VisibilityCount(count) ==
    IF ~count.ok THEN count
    ELSE IF Lt(count.value, Num(0))
         THEN Throw("Invalid filter-visibility count")
    ELSE Ok(<<[kind |-> "filterVisibility", count |-> count.value,
               percent |-> Null]>>)

OptFilterVisibility(value) ==
    IF endsWith(value, "%")
    THEN VisibilityPercent(parseNumber(SubSeq(value, 1, Len(value) - 1)))
    ELSE VisibilityCount(parseInteger(value))

\* switch (t.name): the process actions one option token pushes, or the
\* error it throws
OptionValue(t) ==
    CASE t.name \in {"translate", "rotate"} ->
            OptVec3(t.name, parseVec3(t.value))
      [] t.name = "scale" -> OptScale(parseNumber(t.value))
      [] t.name = "filter-nan" -> Ok(<<[kind |-> "filterNaN"]>>)
      [] t.name = "filter-value" -> OptFilterValue(SplitTrim(t.value, ","))
      [] t.name = "filter-harmonics" ->
            OptFilterHarmonics(parseInteger(t.value))
      [] t.name = "filter-box" -> OptFilterBox(SplitTrim(t.value, ","))
      [] t.name = "filter-sphere" -> OptFilterSphere(SplitTrim(t.value, ","))
      [] t.name = "params" -> OptParams(SplitTrim(t.value, ","))
      [] t.name = "lod" -> OptLod(parseInteger(t.value))
      [] t.name = "summary" -> Ok(<<[kind |-> "summary"]>>)
      [] t.name = "morton-order" -> Ok(<<[kind |-> "mortonOrder"]>>)
      [] t.name = "filter-visibility" -> OptFilterVisibility(trim(t.value))
      [] OTHER -> Ok(<<>>)

\* s.toLowerCase(), over the letters the model draws
toLowerCase(s) ==
    [i \in 1..Len(s) |->
        CASE s[i] = "C" -> "c" [] s[i] = "P" -> "p" [] s[i] = "U" -> "u"
          [] OTHER -> s[i]]

\* const deviceIdx: -2 for 'cpu', otherwise the integer of --gpu, at least -1
DeviceIdxOf(gpuValue, deviceIdx) ==
    IF gpuValue = "cpu" THEN Ok(-2)
    ELSE IF ~deviceIdx.ok THEN deviceIdx
    ELSE IF deviceIdx.value.v \div Unit < -1 THEN Throw("Invalid GPU index")
    ELSE Ok(deviceIdx.value.v \div Unit)

DeviceIdx(gpu) == DeviceIdxOf(Word(toLowerCase(gpu)), parseInteger(gpu))

\* ---- the command lines of SpecArgs

MaxTokens == 3

\* the values of --gpu: the default, cpu, and an index below -1
GpuValues == {<<"-", "1">>, <<"C", "p", "u">>, <<"-", "3">>}

FileNames == {"in.ply", "null"}

Opt(name, value) == [kind |-> "option", name |-> name, value |-> value]

OptionTokens ==
    { Opt("translate", <<"1", ",", "0", ",", "0">>),
      Opt("translate", <<"1", ",", "0">>),
      Opt("rotate", <<"0", ",", "x", ",", "0">>),
      Opt("scale", <<"0", ".", "5">>),
      Opt("scale", StrInfinity),
      Opt("scale", <<"N", "a", "N">>),
      Opt("filter-nan", <<>>),
      Opt("filter-value", Spelling.opacity \o <<",", " ">> \o Spelling.lt
                              \o <<",", "0", ".", "5">>),
      Opt("filter-value", Spelling.opacity \o <<",">> \o Spelling.ge
                              \o <<",", "0", ".", "5">>),
      Opt("filter-harmonics", <<"2">>),
      Opt("filter-harmonics", <<"4">>),
      Opt("filter-box", <<",", "-", ",", "0", ",", "1", ",", ",">>),
      Opt("filter-sphere", <<"0", ",", "0", ",", "0", ",", "1">>),
      Opt("params", <<"a", "=", "1", ",", "b">>),
      Opt("lod", <<"1">>),
      Opt("lod", <<"-", "1">>),
      Opt("summary", <<>>),
      Opt("morton-order", <<>>),
      Opt("filter-visibility", <<"5", "0", "%">>),
      Opt("filter-visibility", <<"1", "5", "0", "%">>),
      Opt("filter-visibility", <<"1", "0">>),
      Opt("filter-visibility", <<"-", "1">>),
      Opt("overwrite", <<>>) }

\* ---- parseArguments as a state machine: the global options, then one
\* step for each token, then the return

ArgsInit ==
    /\ \E gpu \in GpuValues :
          cli = [pc |-> "options", gpu |-> gpu, deviceIdx |-> 0,
                 files |-> <<>>, error |-> "", tokens |-> 0]
    /\ st = enter(<<>>, <<>>)
    /\ input0 = st
    /\ prev = st
    /\ log = <<>>
    /\ run = RunIdle
    /\ Idle

WithOptions(c, deviceIdx) ==
    IF deviceIdx.ok
    THEN [c EXCEPT !.pc = "tokens", !.deviceIdx = deviceIdx.value]
    ELSE [c EXCEPT !.pc = "threw", !.error = deviceIdx.error]

\* the global options, all but --gpu at their defaults
ParseOptions ==
    /\ cli.pc = "options"
    /\ cli' = WithOptions(cli, DeviceIdx(cli.gpu))
    /\ UNCHANGED <<pipeVars, run, idleVars>>

MoreTokensOf(max) == cli.pc = "tokens" /\ cli.tokens < max

MoreTokens == MoreTokensOf(MaxTokens)

\* the tokens of the command line so far, in the runs that keep them
Seen(c, t) ==
    IF "line" \in DOMAIN c THEN [c EXCEPT !.line = Append(@, t)] ELSE c

\* t.kind === 'positional', for one of the file names given
PositionalOf(names, max) ==
    /\ MoreTokensOf(max)
    /\ \E filename \in names :
          cli' = [Seen(cli, [kind |-> "positional", value |-> filename])
                  EXCEPT
                    !.files = Append(@, [filename |-> filename,
                                         processActions |-> <<>>]),
                    !.tokens = @ + 1]
    /\ UNCHANGED <<pipeVars, run, idleVars>>

Positional == PositionalOf(FileNames, MaxTokens)

\* the actions appended to the first file: C29 tells it from WithOption
WithOptionFirst(c, value) ==
    IF ~value.ok
    THEN [c EXCEPT !.pc = "threw", !.error = value.error, !.tokens = @ + 1]
    ELSE [c EXCEPT !.files[1].processActions = @ \o value.value,
                   !.tokens = @ + 1]

WithOption(c, value) ==
    IF ~value.ok
    THEN [c EXCEPT !.pc = "threw", !.error = value.error, !.tokens = @ + 1]
    ELSE [c EXCEPT !.files[Len(c.files)].processActions = @ \o value.value,
                   !.tokens = @ + 1]

\* t.kind === 'option', for one of the tokens given: read when a file
\* precedes it, skipped otherwise
OptionOf(tokens, max) ==
    /\ MoreTokensOf(max)
    /\ \E t \in tokens :
          cli' = IF Len(cli.files) = 0
                 THEN [Seen(cli, t) EXCEPT !.tokens = @ + 1]
                 ELSE WithOption(Seen(cli, t), OptionValue(t))
    /\ UNCHANGED <<pipeVars, run, idleVars>>

Option == OptionOf(OptionTokens, MaxTokens)

\* return { files, options } once the tokens are through
Return ==
    /\ cli.pc = "tokens"
    /\ cli' = [cli EXCEPT !.pc = "returned"]
    /\ UNCHANGED <<pipeVars, run, idleVars>>

ArgsNext == ParseOptions \/ Positional \/ Option \/ Return

SpecArgs == ArgsInit /\ [][ArgsNext]_vars

\* the values a configuration may hold
ValidAction(a) ==
    CASE a.kind = "scale" -> isFinite(a.value)
      [] a.kind = "filterByValue" -> a.comparator \in Comparators
      [] a.kind = "filterBands" -> a.value \in {0, 1, 2, 3}
      [] a.kind = "lod" -> isInteger(a.value) /\ a.value.v >= 0
      [] a.kind = "filterVisibility" ->
            /\ a.count = Null \/ (isInteger(a.count) /\ a.count.v >= 0)
            /\ a.percent = Null
                  \/ (isFinite(a.percent) /\ a.percent.v >= 0
                        /\ a.percent.v <= 100 * Unit)
      [] OTHER -> TRUE

\* C7: every command line parseArguments accepts is a valid configuration:
\* no comparator outside the six, no percentage outside [0, 100], no negative
\* count or lod, no band count outside 0..3, no scale that is not finite.
C7_AcceptedIsValid ==
    cli.pc = "returned" =>
        \A f \in 1..Len(cli.files) :
            \A i \in 1..Len(cli.files[f].processActions) :
                ValidAction(cli.files[f].processActions[i])

\* -------------------------------------------------------------------- main
\* In main a table is a value [bufs, cols]: its columns numbered 1..n, each
\* with a buffer of its own.

\* the table result refers to when processDataTable returns
TableOf(s) ==
    [bufs |-> [i \in 1..Len(s.result) |-> s.bufs[s.result[i].buf]],
     cols |-> [i \in 1..Len(s.result) |->
                 [name |-> s.result[i].name, buf |-> i]]]

Returned(s) ==
    IF s.threw THEN Throw("processDataTable") ELSE Ok(TableOf(s))

\* processDataTable(dataTable, processActions): the table it returns, or
\* the error it throws
processDataTable(dataTable, processActions) ==
    Returned(processLoop(enter(dataTable.bufs, dataTable.cols),
                         processActions))

RequiredNames ==
    {"x", "y", "z", "rot_0", "rot_1", "rot_2", "rot_3",
     "scale_0", "scale_1", "scale_2", "f_dc_0", "f_dc_1", "f_dc_2", "opacity"}

isGSDataTable(dataTable) ==
    \A c \in RequiredNames : hasColumn(dataTable.cols, c)

Rows(dataTable) == numRows(dataTable.bufs, dataTable.cols)

\* a validation that lets every table through: C8 tells it from ValidTable
ValidTableAlways(dataTable) == TRUE

\* a table main takes on: it has rows and is a Gaussian splat table
ValidTable(dataTable) ==
    ~(Rows(dataTable) = 0 \/ ~isGSDataTable(dataTable))

\* the loop over the tables of one input: the processed tables, or the
\* first error thrown
ProcessOne(dataTable, processActions) ==
    IF ~ValidTable(dataTable) THEN Throw("Unsupported data in file")
    ELSE processDataTable(dataTable, processActions)

ProcessTables(dataTables, processActions) ==
    Values([i \in 1..Len(dataTables) |->
               ProcessOne(dataTables[i], processActions)])

\* combine(tables): the union of the columns in the order they first occur,
\* the rows of the tables one after the other, 0 where a table lacks a column
NewNames(names, more) ==
    names \o SelectSeq(more,
                 LAMBDA n : \A i \in 1..Len(names) : names[i] # n)

RECURSIVE UnionNames(_)
UnionNames(tables) ==
    IF tables = <<>> THEN <<>>
    ELSE NewNames(UnionNames(SubSeq(tables, 1, Len(tables) - 1)),
                  columnNames(tables[Len(tables)].cols))

DataOf(dataTable, name) ==
    IF hasColumn(dataTable.cols, name)
    THEN dataTable.bufs[getColumnByName(dataTable.cols, name).buf]
    ELSE [r \in 1..Rows(dataTable) |-> Num(0)]

RECURSIVE ConcatData(_, _)
ConcatData(tables, name) ==
    IF tables = <<>> THEN <<>>
    ELSE DataOf(Head(tables), name) \o ConcatData(Tail(tables), name)

Combined(tables, names) ==
    [bufs |-> [i \in 1..Len(names) |-> ConcatData(tables, names[i])],
     cols |-> [i \in 1..Len(names) |-> [name |-> names[i], buf |-> i]]]

combine(tables) == Combined(tables, UnionNames(tables))

\* dt.hasColumn('lod') && dt.getColumnByName('lod').data.every(v => v === -1)
isEnvTable(dt) ==
    /\ hasColumn(dt.cols, "lod")
    /\ \A r \in 1..Rows(dt) : DataOf(dt, "lod")[r] = Num(-Unit)

\* !dt.hasColumn('lod') || dt.getColumnByName('lod').data.some(v => v !== -1)
isNonEnvTable(dt) ==
    \/ ~hasColumn(dt.cols, "lod")
    \/ \E r \in 1..Rows(dt) : DataOf(dt, "lod")[r] # Num(-Unit)

envDataTables(inputDataTables) == SelectSeq(inputDataTables, isEnvTable)

nonEnvDataTables(inputDataTables) == SelectSeq(inputDataTables, isNonEnvTable)

\* the value false of `tables.length > 0 && ...`
NoTable == [none |-> TRUE]

\* tables.length > 0 && processDataTable(combine(tables), processActions)
CombineAndProcess(tables, processActions) ==
    IF Len(tables) > 0
    THEN processDataTable(combine(tables), processActions)
    ELSE Ok(NoTable)

\* a check that lets a table without rows through: C9 tells it from
\* NoGaussians
NoTableOnly(dataTable) == dataTable = NoTable

\* !dataTable || dataTable.numRows === 0
NoGaussians(dataTable) == dataTable = NoTable \/ Rows(dataTable) = 0

\* the tables of the inputs, those of the last input first: C28 tells it
\* from Flat
RECURSIVE FlatReversed(_)
FlatReversed(inputs) ==
    IF inputs = <<>> THEN <<>>
    ELSE FlatReversed(Tail(inputs)) \o Head(inputs).tables

\* [...].flat(1) of the tables of the inputs
RECURSIVE Flat(_)
Flat(inputs) ==
    IF inputs = <<>> THEN <<>>
    ELSE Head(inputs).tables \o Flat(Tail(inputs))

inputArgs(r) == SubSeq(r.files, 1, Len(r.files) - 1)

outputArg(r) == r.files[Len(r.files)]

\* filename.toLowerCase() of the file names the model draws
LowerName(filename) == IF filename = "NULL" THEN "null" ELSE filename

isNullOutput(r) == LowerName(outputArg(r).filename) = "null"

\* exit(code): the process ends
Exit(r, code) == [r EXCEPT !.pc = "exited", !.exitCode = code]

\* catch (err) { logger.error(err); exit(1); }
Caught(r, err) == Exit([r EXCEPT !.errors = Append(@, err)], 1)

\* logger.log(`done in ...`); exit(0)
Done(r) == Exit([r EXCEPT !.done = TRUE], 0)

\* if (!isNullOutput) { await writeFile(...) }
Write(r, dataTable, envDataTable) ==
    IF isNullOutput(r) THEN Done(r)
    ELSE [r EXCEPT !.pc = "writing", !.writes = @ + 1,
                   !.written = [dataTable |-> dataTable,
                                envDataTable |-> envDataTable]]

\* logger.log(`Loaded ${dataTable.numRows} gaussians`)
Loaded(r, dataTable) == [r EXCEPT !.loaded = Rows(dataTable)]

WithEnv(r, dataTable, envDataTable) ==
    IF ~envDataTable.ok THEN Caught(r, envDataTable.error)
    ELSE Write(Loaded(r, dataTable), dataTable, envDataTable.value)

WithPrimary(r, dataTable, envTables) ==
    IF ~dataTable.ok THEN Caught(r, dataTable.error)
    ELSE IF NoGaussians(dataTable.value)
         THEN Caught(r, "No Gaussians to write")
    ELSE WithEnv(r, dataTable.value,
                 CombineAndProcess(envTables, outputArg(r).processActions))

\* lines 570-625, from the tables Promise.all resolved with
AfterReads(r, inputDataTables) ==
    WithPrimary(r,
        CombineAndProcess(nonEnvDataTables(inputDataTables),
                          outputArg(r).processActions),
        envDataTables(inputDataTables))

\* the callback of input i settles: fulfilled with its tables, or rejected
Rejected(r, i, err) ==
    [r EXCEPT !.inputs[i].status = "rejected",
              !.rejection = IF @ = "" THEN err ELSE @]

Settled(r, i, result) ==
    IF ~result.ok THEN Rejected(r, i, result.error)
    ELSE [r EXCEPT !.inputs[i].status = "fulfilled",
                   !.inputs[i].tables = result.value]

\* inputArgs.map(async ...): every input starts its read
StartReads(r) ==
    [r EXCEPT !.pc = "reading",
              !.inputs = [i \in 1..(Len(r.files) - 1) |->
                            [status |-> "reading", read |-> <<>>,
                             tables |-> <<>>]]]

\* ---- the runs of SpecMain

MaxInputs == 2

MainActionLists == {<<>>, <<[kind |-> "filterNaN"]>>}

InputFiles ==
    {[filename |-> "in.ply", processActions |-> a] : a \in MainActionLists}

OutputFiles ==
    {[filename |-> n, processActions |-> a] :
        n \in {"out.ply", "NULL"}, a \in MainActionLists}

\* no file at all, or up to MaxInputs inputs and the output
MainFiles ==
    {<<>>} \cup UNION {{ins \o <<out>> : ins \in [1..n -> InputFiles],
                                         out \in OutputFiles} :
                          n \in 0..MaxInputs}

MainOptions ==
    {[overwrite |-> o = "overwrite", help |-> o = "help",
      version |-> o = "version", listGpus |-> o = "listGpus"] :
        o \in {"", "overwrite", "help", "version", "listGpus"}}

RowEnv == ("lod" :> Num(-Unit)) @@ RowBase

RowLod0 == ("lod" :> Num(0)) @@ RowBase

MissingNames == SelectSeq(GSNames, LAMBDA n : n # "opacity")

\* what readFile resolves with: one table that is fine, one whose only row
\* holds a NaN, one without rows, one without opacity, an environment table,
\* one with an environment row and a row of lod 0, and two tables at once
ReadTables ==
    { <<MakeTable(TableNames(0, FALSE), <<RowBase>>)>>,
      <<MakeTable(TableNames(0, FALSE), <<RowNaN>>)>>,
      <<MakeTable(TableNames(0, FALSE), <<>>)>>,
      <<MakeTable(MissingNames, <<RowBase>>)>>,
      <<MakeTable(TableNames(0, TRUE), <<RowEnv>>)>>,
      <<MakeTable(TableNames(0, TRUE), <<RowEnv, RowLod0>>)>>,
      <<MakeTable(TableNames(0, FALSE), <<RowAlt>>),
        MakeTable(TableNames(0, TRUE), <<RowEnv>>)>> }

MainInit ==
    /\ \E files \in MainFiles : \E options \in MainOptions :
          run = [pc |-> "start", files |-> files, options |-> options,
                 inputs |-> <<>>, rejection |-> "", errors |-> <<>>,
                 writes |-> 0,
                 written |-> [dataTable |-> NoTable, envDataTable |-> NoTable],
                 done |-> FALSE, exitCode |-> -1, loaded |-> -1]
    /\ st = enter(<<>>, <<>>)
    /\ input0 = st
    /\ prev = st
    /\ log = <<>>
    /\ cli = CliIdle
    /\ Idle

\* if (options.version) exit(0)
ShowVersion ==
    /\ run.pc = "start"
    /\ run.options.version
    /\ run' = Exit(run, 0)
    /\ UNCHANGED <<pipeVars, cli, idleVars>>

\* if (options.listGpus): the adapters are listed, or the failure is logged
ListGpus ==
    /\ run.pc = "start"
    /\ ~run.options.version
    /\ run.options.listGpus
    /\ \E ok \in BOOLEAN :
          run' = Exit(IF ok THEN run
                      ELSE [run EXCEPT !.errors =
                              Append(@, "Failed to enumerate GPU adapters")],
                      0)
    /\ UNCHANGED <<pipeVars, cli, idleVars>>

Proceeds == run.pc = "start" /\ ~run.options.version /\ ~run.options.listGpus

\* if (files.length < 2 || options.help) { logger.error(usage); exit(1) }
Usage ==
    /\ Proceeds
    /\ Len(run.files) < 2 \/ run.options.help
    /\ run' = Caught(run, "usage")
    /\ UNCHANGED <<pipeVars, cli, idleVars>>

\* lines 488-498: a null output goes straight to the reads
Begin ==
    /\ Proceeds
    /\ ~(Len(run.files) < 2 \/ run.options.help)
    /\ run' = IF isNullOutput(run) THEN StartReads(run)
              ELSE [run EXCEPT !.pc = "checking"]
    /\ UNCHANGED <<pipeVars, cli, idleVars>>

\* lines 499-529: mkdir with -w, fileExists without; either may fail, and
\* main has no handler around them
Checked(r, outcome) ==
    IF outcome = "error" THEN [r EXCEPT !.pc = "threw"]
    ELSE IF outcome = "exists" /\ ~r.options.overwrite
         THEN Caught(r, "File already exists. Use -w option to overwrite.")
    ELSE StartReads(r)

CheckOutput ==
    /\ run.pc = "checking"
    /\ \E outcome \in {"free", "exists", "error"} :
          run' = Checked(run, outcome)
    /\ UNCHANGED <<pipeVars, cli, idleVars>>

\* the order in which the reads complete, in the runs that keep it
Noted(r, i) ==
    IF "order" \in DOMAIN r THEN [r EXCEPT !.order = Append(@, i)] ELSE r

\* await readFile(...) of one input: its tables, among those of the set
\* given, or a rejection
ReadFileOf(tables) ==
    /\ run.pc = "reading"
    /\ \E i \in 1..Len(run.inputs) :
          /\ run.inputs[i].status = "reading"
          /\ \/ \E dataTables \in tables :
                   run' = [Noted(run, i)
                              EXCEPT !.inputs[i].status = "loaded",
                                     !.inputs[i].read = dataTables]
             \/ run' = Rejected(Noted(run, i), i, "readFile failed")
    /\ UNCHANGED <<pipeVars, cli, idleVars>>

ReadFile == ReadFileOf(ReadTables)

\* lines 557-567 of one input: each table validated and processed
Process ==
    /\ run.pc = "reading"
    /\ \E i \in 1..Len(run.inputs) :
          /\ run.inputs[i].status = "loaded"
          /\ run' = Settled(run, i,
                       ProcessTables(run.inputs[i].read,
                                     run.files[i].processActions))
    /\ UNCHANGED <<pipeVars, cli, idleVars>>

\* Promise.all rejected with the first rejection: the catch block
Catch ==
    /\ run.pc = "reading"
    /\ run.rejection # ""
    /\ run' = Caught(run, run.rejection)
    /\ UNCHANGED <<pipeVars, cli, idleVars>>

\* Promise.all resolved: lines 568-625 up to the call of writeFile
Finish ==
    /\ run.pc = "reading"
    /\ \A i \in 1..Len(run.inputs) : run.inputs[i].status = "fulfilled"
    /\ run' = AfterReads(run, Flat(run.inputs))
    /\ UNCHANGED <<pipeVars, cli, idleVars>>

\* await writeFile(...) returns, or throws into the catch block
WriteFile ==
    /\ run.pc = "writing"
    /\ \E ok \in BOOLEAN :
          run' = IF ok THEN Done(run) ELSE Caught(run, "writeFile failed")
    /\ UNCHANGED <<pipeVars, cli, idleVars>>

MainNext ==
    \/ ShowVersion
    \/ ListGpus
    \/ Usage
    \/ Begin
    \/ CheckOutput
    \/ ReadFile
    \/ Process
    \/ Catch
    \/ Finish
    \/ WriteFile

SpecMain == MainInit /\ [][MainNext]_vars

\* ---- the claims about main

InputFailed == \E i \in 1..Len(run.inputs) : run.inputs[i].status = "rejected"

AllFulfilled ==
    /\ Len(run.inputs) = Len(run.files) - 1
    /\ \A i \in 1..Len(run.inputs) : run.inputs[i].status = "fulfilled"

\* every table input i read has rows and the 14 columns, and the tables of
\* input i are those tables after the actions of input i
ReadValidProcessed(i) ==
    /\ \A k \in 1..Len(run.inputs[i].read) :
          /\ Rows(run.inputs[i].read[k]) > 0
          /\ RequiredNames \subseteq NameSet(run.inputs[i].read[k].cols)
    /\ run.inputs[i].tables
          = [k \in 1..Len(run.inputs[i].read) |->
                TableOf(processLoop(enter(run.inputs[i].read[k].bufs,
                                          run.inputs[i].read[k].cols),
                                    run.files[i].processActions))]

\* the primary table: the non-environment tables combined, after the
\* actions of the output
PrimaryTable ==
    CombineAndProcess(nonEnvDataTables(Flat(run.inputs)),
                      outputArg(run).processActions)

\* C8: writeFile is invoked at most once, and only after every input was
\* read, validated and processed, the tables combined and the output
\* actions applied; when an input fails, writeFile is never invoked, one
\* error is logged, the exit status is 1 and 'done' is not logged.
C8_WriteOnceAfterAll ==
    run.pc # "idle" =>
        /\ run.writes <= 1
        /\ run.writes = 1 =>
              /\ AllFulfilled
              /\ \A i \in 1..Len(run.inputs) : ReadValidProcessed(i)
              /\ PrimaryTable.ok
              /\ run.written.dataTable = PrimaryTable.value
        /\ InputFailed =>
              /\ run.writes = 0
              /\ ~run.done
              /\ run.pc \in {"reading", "exited"}
              /\ run.pc = "exited" =>
                    (run.exitCode = 1 /\ Len(run.errors) = 1)

\* C8 witness: two inputs read and processed, the second with an action of
\* its own, writeFile invoked once and the run done
C8_Witness ==
    /\ run.pc = "exited"
    /\ Len(run.inputs) = 2
    /\ run.files[2].processActions # <<>>
    /\ run.writes = 1
    /\ run.done
    /\ run.exitCode = 0

\* main is past the reads, all of them fulfilled
PastReads ==
    /\ run.pc \in {"writing", "exited"}
    /\ Len(run.inputs) >= 1
    /\ AllFulfilled

\* C9: when the primary table has no rows after all actions, or no input
\* table is a non-environment table, the run fails with 'No Gaussians to
\* write', writeFile is not invoked (null output or not) and the exit status
\* is not 0.
C9_NoGaussiansFails ==
    (/\ run.pc # "idle"
     /\ PastReads
     /\ PrimaryTable.ok
     /\ PrimaryTable.value = NoTable \/ Rows(PrimaryTable.value) = 0)
        => /\ run.pc = "exited"
           /\ run.errors = <<"No Gaussians to write">>
           /\ run.writes = 0
           /\ run.exitCode # 0
           /\ ~run.done

\* C9 witness: a table whose rows the actions all removed, output to a file
C9_Witness ==
    /\ run.pc = "exited"
    /\ PastReads
    /\ ~isNullOutput(run)
    /\ PrimaryTable.value # NoTable
    /\ Rows(PrimaryTable.value) = 0
    /\ run.errors = <<"No Gaussians to write">>

\* C10: no row of the primary table handed to writeFile has lod -1.
C10_NoEnvRowInPrimary ==
    (run.pc # "idle" /\ run.writes = 1
        /\ hasColumn(run.written.dataTable.cols, "lod"))
        => \A r \in 1..Rows(run.written.dataTable) :
              DataOf(run.written.dataTable, "lod")[r] # Num(-Unit)

\* ------------------------------------------------- compressed PLY: detector
\* A PlyData is [elements |-> a sequence of [name, dataTable]]; the table of
\* an element is its sequence of columns [name, dataType, data].

\* number of splats per chunk
CHUNK_SIZE == 256

MaxChunks == 2

requiredChunkProperties ==
    <<"min_x", "min_y", "min_z", "max_x", "max_y", "max_z",
      "min_scale_x", "min_scale_y", "min_scale_z",
      "max_scale_x", "max_scale_y", "max_scale_z">>

colorChunkProperties ==
    <<"min_r", "min_g", "min_b", "max_r", "max_g", "max_b">>

vertexProperties ==
    <<"packed_position", "packed_rotation", "packed_scale", "packed_color">>

\* dataTable.numColumns and dataTable.numRows of an element's table
numColumns(dataTable) == Len(dataTable)

plyRows(dataTable) ==
    IF Len(dataTable) = 0 THEN 0 ELSE Len(dataTable[1].data)

\* hasShape(dataTable, columns, type)
hasShape(dataTable, columns, type) ==
    \A i \in 1..Len(columns) :
        /\ hasColumn(dataTable, columns[i])
        /\ getColumnByName(dataTable, columns[i]).dataType = type

\* ply.elements.find(e => e.name === name): 0 when there is none
FindElement(p, name) ==
    IF \E i \in 1..Len(p.elements) : p.elements[i].name = name
    THEN CHOOSE i \in 1..Len(p.elements) :
            /\ p.elements[i].name = name
            /\ \A j \in 1..(i - 1) : p.elements[j].name # name
    ELSE 0

ElementTable(p, name) == p.elements[FindElement(p, name)].dataTable

\* Math.ceil(n / d) of naturals
CeilDiv(n, d) == (n + d - 1) \div d

\* the name of the k-th (0-based) f_rest column
RestName(k) == shNames[k + 1]

ChunkOk(p) ==
    /\ FindElement(p, "chunk") # 0
    /\ hasShape(ElementTable(p, "chunk"), requiredChunkProperties, "float32")
    /\ IF numColumns(ElementTable(p, "chunk"))
            = Len(requiredChunkProperties) + Len(colorChunkProperties)
       THEN hasShape(ElementTable(p, "chunk"), colorChunkProperties,
                     "float32")
       ELSE numColumns(ElementTable(p, "chunk"))
                = Len(requiredChunkProperties)

VertexOk(p) ==
    /\ FindElement(p, "vertex") # 0
    /\ hasShape(ElementTable(p, "vertex"), vertexProperties, "uint32")

RowsOk(p) ==
    CeilDiv(plyRows(ElementTable(p, "vertex")), CHUNK_SIZE)
        = plyRows(ElementTable(p, "chunk"))

ShColumnsOk(shData) ==
    /\ numColumns(shData) \in {9, 24, 45}
    /\ \A i \in 0..(numColumns(shData) - 1) :
          /\ hasColumn(shData, RestName(i))
          /\ getColumnByName(shData, RestName(i)).dataType = "uint8"

ShOk(p) ==
    Len(p.elements) = 3 =>
        /\ FindElement(p, "sh") # 0
        /\ ShColumnsOk(ElementTable(p, "sh"))
        /\ plyRows(ElementTable(p, "sh")) = plyRows(ElementTable(p, "vertex"))

isCompressedPly(p) ==
    /\ Len(p.elements) \in {2, 3}
    /\ ChunkOk(p)
    /\ VertexOk(p)
    /\ RowsOk(p)
    /\ ShOk(p)

\* ---------------------------------------------------- rationals (float32)
\* The values of the float32 columns of a PLY and of the decoded table are
\* exact rationals n / d (d > 0, in lowest terms), NaN or an infinity.

RECURSIVE Gcd(_, _)
Gcd(a, b) == IF b = 0 THEN a ELSE Gcd(b, a % b)

Abs(n) == IF n < 0 THEN -n ELSE n

QNorm(n, d, g) == [k |-> "num", v |-> n \div g, d |-> d \div g]

\* n / d for d > 0
Q(n, d) == QNorm(n, d, Gcd(Abs(n), d))

QInt(n) == [k |-> "num", v |-> n, d |-> 1]

\* the product of two fractions, reduced crosswise before multiplying
QTimes(an, ad, bn, bd, g1, g2) ==
    Q((an \div g1) * (bn \div g2), (ad \div g2) * (bd \div g1))

\* a * b
QMul(a, b) ==
    IF a.k = "nan" \/ b.k = "nan" THEN NaN
    ELSE IF a.k = "inf" \/ b.k = "inf"
         THEN (IF Sign(a) * Sign(b) = 0 THEN NaN
               ELSE IF Sign(a) * Sign(b) > 0 THEN PosInf ELSE NegInf)
    ELSE QTimes(a.v, a.d, b.v, b.d, Gcd(Abs(a.v), b.d), Gcd(Abs(b.v), a.d))

\* the sum of two fractions over their least common denominator (g is the
\* greatest common divisor of the denominators)
QPlus(an, ad, bn, bd, g) ==
    Q(an * (bd \div g) + bn * (ad \div g), (ad \div g) * bd)

\* a + b
QAdd(a, b) ==
    IF a.k = "nan" \/ b.k = "nan" THEN NaN
    ELSE IF a.k = "inf" /\ b.k = "inf" THEN (IF a.v = b.v THEN a ELSE NaN)
    ELSE IF a.k = "inf" THEN a
    ELSE IF b.k = "inf" THEN b
    ELSE QPlus(a.v, a.d, b.v, b.d, Gcd(a.d, b.d))

\* -a
QNeg(a) == IF a.k = "nan" THEN a ELSE [a EXCEPT !.v = -a.v]

\* a - b
QSub(a, b) == QAdd(a, QNeg(b))

\* --------------------------------------------------- compressed PLY: input

Zeros(n) == [i \in 1..n |-> 0]

QZeros(n) == [i \in 1..n |-> QInt(0)]

WZeros(n) == [i \in 1..n |-> [hi |-> 0, lo |-> 0]]

\* the columns named names, all of one type and with the same data
ColumnsOf(names, type, data) ==
    [i \in 1..Len(names) |->
        [name |-> names[i], dataType |-> type, data |-> data]]

\* columns with the type of column i replaced
Retyped(columns, i, type) == [columns EXCEPT ![i].dataType = type]

ExtraNames(n) == [i \in 1..n |-> "extra"]

RestNames0(n) == [i \in 1..n |-> RestName(i - 1)]

\* the shapes of the chunk element: the two of the format, and deviations
ChunkShapes(n) ==
    [c12 |-> ColumnsOf(requiredChunkProperties, "float32", QZeros(n)),
     c18 |-> ColumnsOf(requiredChunkProperties \o colorChunkProperties,
                       "float32", QZeros(n)),
     c12type |-> Retyped(ColumnsOf(requiredChunkProperties, "float32",
                                   QZeros(n)), 1, "float64"),
     c11 |-> ColumnsOf(SubSeq(requiredChunkProperties, 1, 11), "float32",
                       QZeros(n)),
     c13 |-> ColumnsOf(requiredChunkProperties \o ExtraNames(1), "float32",
                       QZeros(n)),
     c18type |-> Retyped(ColumnsOf(requiredChunkProperties
                                       \o colorChunkProperties,
                                   "float32", QZeros(n)), 18, "uint8"),
     c18other |-> ColumnsOf(requiredChunkProperties \o RestNames0(6),
                            "float32", QZeros(n))]

VertexShapes(n) ==
    [v4 |-> ColumnsOf(vertexProperties, "uint32", WZeros(n)),
     v5 |-> ColumnsOf(vertexProperties \o ExtraNames(1), "uint32",
                      WZeros(n)),
     v3 |-> ColumnsOf(SubSeq(vertexProperties, 1, 3), "uint32", WZeros(n)),
     v4type |-> Retyped(ColumnsOf(vertexProperties, "uint32", WZeros(n)),
                        4, "float32")]

ShShapes(n) ==
    [s9 |-> ColumnsOf(RestNames0(9), "uint8", Zeros(n)),
     s24 |-> ColumnsOf(RestNames0(24), "uint8", Zeros(n)),
     s45 |-> ColumnsOf(RestNames0(45), "uint8", Zeros(n)),
     s10 |-> ColumnsOf(RestNames0(10), "uint8", Zeros(n)),
     s9type |-> Retyped(ColumnsOf(RestNames0(9), "uint8", Zeros(n)),
                        1, "float32"),
     s9name |-> ColumnsOf(SubSeq(RestNames0(10), 2, 10), "uint8", Zeros(n))]

\* the elements of a file, in order
ElementLists ==
    {<<"chunk", "vertex">>, <<"chunk", "vertex", "sh">>,
     <<"vertex", "chunk">>, <<"sh", "vertex", "chunk">>,
     <<"chunk">>, <<"chunk", "vertex", "extra">>, <<"chunk", "sh">>,
     <<"vertex", "sh", "extra">>, <<"chunk", "vertex", "sh", "extra">>}

ValidLists == {<<"chunk", "vertex">>, <<"chunk", "vertex", "sh">>}

\* [vertex, chunk, sh]: the numbers of rows of the three elements
RowCounts ==
    {<<v, c, s>> : v \in {0, 1, CHUNK_SIZE, CHUNK_SIZE + 1},
                   c \in 0..MaxChunks, s \in {0, 1, CHUNK_SIZE + 1}}

ValidRowCounts ==
    {r \in RowCounts : CeilDiv(r[1], CHUNK_SIZE) = r[2] /\ r[3] = r[1]}

ElementOf(name, c, v, s, r) ==
    [name |-> name,
     dataTable |->
        IF name = "chunk" THEN ChunkShapes(r[2])[c]
        ELSE IF name = "vertex" THEN VertexShapes(r[1])[v]
        ELSE IF name = "sh" THEN ShShapes(r[3])[s]
        ELSE ColumnsOf(ExtraNames(1), "float32", QZeros(1))]

MakePly(e, c, v, s, r) ==
    [elements |-> [i \in 1..Len(e) |-> ElementOf(e[i], c, v, s, r)]]

\* files of the format, and files that deviate from it in one respect
DetectFiles ==
    {MakePly(e, c, "v4", s, r) :
        e \in ElementLists, c \in {"c12", "c18"}, s \in {"s9", "s24", "s45"},
        r \in ValidRowCounts}
    \cup {MakePly(e, c, "v4", "s9", r) :
        e \in ValidLists, c \in DOMAIN ChunkShapes(0), r \in ValidRowCounts}
    \cup {MakePly(e, "c12", v, "s9", r) :
        e \in ValidLists, v \in DOMAIN VertexShapes(0), r \in ValidRowCounts}
    \cup {MakePly(e, "c12", "v4", s, r) :
        e \in ValidLists, s \in DOMAIN ShShapes(0), r \in ValidRowCounts}
    \cup {MakePly(e, c, "v4", "s9", r) :
        e \in ValidLists, c \in {"c12", "c18"}, r \in RowCounts}

\* -------------------------------------------------- compressed PLY: decode

\* A 32-bit word is [hi, lo], its two 16-bit halves: hi * 2^16 + lo.
Half == Pow2(16)

U32(hi, lo) == [hi |-> hi, lo |-> lo]

\* the word of a natural below 2^31
WordOf(n) == U32(n \div Half, n % Half)

\* the bitwise and of two naturals
RECURSIVE BitAnd(_, _)
BitAnd(a, b) ==
    IF a = 0 \/ b = 0 THEN 0
    ELSE (a % 2) * (b % 2) + 2 * BitAnd(a \div 2, b \div 2)

\* a & t for a word a and a natural t below 2^31: a natural
And(a, t) ==
    BitAnd(a.lo, t % Half) + Half * BitAnd(a.hi, t \div Half)

\* a >>> n for a word a: a word
Shr(a, n) ==
    IF n % 32 >= 16 THEN U32(0, a.hi \div Pow2((n % 32) - 16))
    ELSE U32(a.hi \div Pow2(n % 32),
              a.lo \div Pow2(n % 32)
                  + (a.hi % Pow2(n % 32)) * Pow2(16 - (n % 32)))

\* a << n for naturals with a * 2^n below 2^31
Shl(a, n) == a * Pow2(n % 32)

\* data[i] of a typed array, i counted from 0: NaN stands for the undefined
\* read past the end, which every use converts to NaN
At(data, i) == IF i >= 0 /\ i < Len(data) THEN data[i + 1] ELSE NaN

\* the bounds exchanged: C25 tells it from lerp
lerpSwapped(a, b, t) == QAdd(QMul(b, QSub(QInt(1), t)), QMul(a, t))

\* a * (1 - t) + b * t
lerp(a, b, t) == QAdd(QMul(a, QSub(QInt(1), t)), QMul(b, t))

UnormOf(value, t) == Q(And(value, t), t)

unpackUnorm(value, bits) == UnormOf(value, Shl(1, bits) - 1)

\* a split with the y field taken one bit too low: C12 tells it from
\* unpack111011
unpack111011Low(value) ==
    [x |-> unpackUnorm(Shr(value, 21), 11),
     y |-> unpackUnorm(Shr(value, 10), 10),
     z |-> unpackUnorm(value, 11)]

unpack111011(value) ==
    [x |-> unpackUnorm(Shr(value, 21), 11),
     y |-> unpackUnorm(Shr(value, 11), 10),
     z |-> unpackUnorm(value, 11)]

unpack8888(value) ==
    [x |-> unpackUnorm(Shr(value, 24), 8),
     y |-> unpackUnorm(Shr(value, 16), 8),
     z |-> unpackUnorm(Shr(value, 8), 8),
     w |-> unpackUnorm(value, 8)]

\* A rotation component is kept exact: Root2(q) is q * sqrt(2), the value
\* (u - 0.5) * norm with norm = 1 / (sqrt(2) * 0.5), and Sqrt(q) is the
\* non-negative square root of the rational q.
Root2(q) == [k |-> "root2", q |-> q]

Sqrt(q) == [k |-> "sqrt", q |-> q]

\* (unpackUnorm(value >>> shift, 10) - 0.5) * norm
RotField(value, shift) ==
    Root2(QSub(unpackUnorm(Shr(value, shift), 10), Q(1, 2)))

\* the square of a Root2 component
Squared(a) == QMul(QInt(2), QMul(a.q, a.q))

\* Math.max(0, x) of a rational
Max0(x) == IF x.v < 0 THEN QInt(0) ELSE x

\* Math.sqrt(Math.max(0, 1.0 - (a * a + b * b + c * c)))
RotM(a, b, c) ==
    Sqrt(Max0(QSub(QInt(1),
                   QAdd(QAdd(Squared(a), Squared(b)), Squared(c)))))

\* the dropped component always put last: C13 tells it from RotOf
RotOfLast(which, a, b, c, m) == [x |-> a, y |-> b, z |-> c, w |-> m]

RotOf(which, a, b, c, m) ==
    CASE which = 0 -> [x |-> m, y |-> a, z |-> b, w |-> c]
      [] which = 1 -> [x |-> a, y |-> m, z |-> b, w |-> c]
      [] which = 2 -> [x |-> a, y |-> b, z |-> m, w |-> c]
      [] OTHER -> [x |-> a, y |-> b, z |-> c, w |-> m]

RotABC(which, a, b, c) == RotOf(which, a, b, c, RotM(a, b, c))

unpackRot(value) ==
    RotABC(Shr(value, 30).lo, RotField(value, 20), RotField(value, 10),
           RotField(value, 0))

\* getChunk(name) and the packed columns of the vertex element
getChunk(p, name) == getColumnByName(ElementTable(p, "chunk"), name).data

Packed(p, name) == getColumnByName(ElementTable(p, "vertex"), name).data

numSplats(p) == plyRows(ElementTable(p, "vertex"))

hasChunkColors(p) == hasColumn(ElementTable(p, "chunk"), "min_r")

\* the chunk index rounded up: C27 tells it from ChunkIndex
ChunkIndexUp(i) == (i + CHUNK_SIZE - 1) \div CHUNK_SIZE

\* Math.floor(i / CHUNK_SIZE)
ChunkIndex(i) == i \div CHUNK_SIZE

\* lerp(min[ci], max[ci], t) for the bounds named min and max
LerpChunk(p, min, max, ci, t) ==
    lerp(At(getChunk(p, min), ci), At(getChunk(p, max), ci), t)

\* -Math.log(q): kept exact as NegLog(q) for 0 < q < Infinity
NegLog(q) ==
    IF q.k = "nan" THEN NaN
    ELSE IF q.k = "inf" THEN (IF q.v > 0 THEN NegInf ELSE NaN)
    ELSE IF q.v < 0 THEN NaN
    ELSE IF q.v = 0 THEN PosInf
    ELSE [k |-> "neglog", q |-> q]

\* 1 / w of a rational w >= 0
Reciprocal(w) == IF w.v = 0 THEN PosInf ELSE Q(w.d, w.v)

\* -Math.log(1 / c.w - 1)
OpacityOf(w) == NegLog(QSub(Reciprocal(w), QInt(1)))

\* hasChunkColors ? lerp(min[ci], max[ci], c) : c
ColorOf(p, min, max, ci, c) ==
    IF hasChunkColors(p) THEN LerpChunk(p, min, max, ci, c) ELSE c

\* (c - 0.5) / SH_C0, counted in multiples of 1 / SH_C0
DcOf(c) == QSub(c, Q(1, 2))

Letter(r, f) ==
    CASE f = "x" -> r.x [] f = "y" -> r.y [] f = "z" -> r.z [] f = "w" -> r.w

PosValue(p, i, f, min, max) ==
    LerpChunk(p, min, max, ChunkIndex(i),
              Letter(unpack111011(At(Packed(p, "packed_position"), i)), f))

ScaleValue(p, i, f, min, max) ==
    LerpChunk(p, min, max, ChunkIndex(i),
              Letter(unpack111011(At(Packed(p, "packed_scale"), i)), f))

RotValue(p, i, f) ==
    Letter(unpackRot(At(Packed(p, "packed_rotation"), i)), f)

DcValue(p, i, f, min, max) ==
    DcOf(ColorOf(p, min, max, ChunkIndex(i),
                 Letter(unpack8888(At(Packed(p, "packed_color"), i)), f)))

OpacityValue(p, i) ==
    OpacityOf(unpack8888(At(Packed(p, "packed_color"), i)).w)

\* the value the loop writes to row i (from 0) of the column name
Decoded(p, name, i) ==
    CASE name = "x" -> PosValue(p, i, "x", "min_x", "max_x")
      [] name = "y" -> PosValue(p, i, "y", "min_y", "max_y")
      [] name = "z" -> PosValue(p, i, "z", "min_z", "max_z")
      [] name = "rot_0" -> RotValue(p, i, "x")
      [] name = "rot_1" -> RotValue(p, i, "y")
      [] name = "rot_2" -> RotValue(p, i, "z")
      [] name = "rot_3" -> RotValue(p, i, "w")
      [] name = "scale_0" ->
            ScaleValue(p, i, "x", "min_scale_x", "max_scale_x")
      [] name = "scale_1" ->
            ScaleValue(p, i, "y", "min_scale_y", "max_scale_y")
      [] name = "scale_2" ->
            ScaleValue(p, i, "z", "min_scale_z", "max_scale_z")
      [] name = "f_dc_0" -> DcValue(p, i, "x", "min_r", "max_r")
      [] name = "f_dc_1" -> DcValue(p, i, "y", "min_g", "max_g")
      [] name = "f_dc_2" -> DcValue(p, i, "z", "min_b", "max_b")
      [] name = "opacity" -> OpacityValue(p, i)

\* the 14 columns of the result, filled by the loop over the splats
DecodedColumns(p) ==
    [c \in 1..Len(GSNames) |->
        [name |-> GSNames[c],
         data |-> [r \in 1..numSplats(p) |-> Decoded(p, GSNames[c], r - 1)]]]

\* (n - 0.5) * 8 with n = 0, 1 or (src[i] + 0.5) / 256
ShValue(src) ==
    IF src.k = "nan" THEN NaN
    ELSE QMul(QSub(IF src.v = 0 THEN QInt(0)
                   ELSE IF src.v = 255 THEN QInt(1)
                   ELSE Q(2 * src.v + 1, 512),
                   Q(1, 2)),
              QInt(8))

\* src[i] of a uint8 column
ByteAt(data, i) == IF i >= 0 /\ i < Len(data) THEN QInt(data[i + 1]) ELSE NaN

\* the columns added for the sh element, one per column of it
ShColumns(p, n) ==
    IF FindElement(p, "sh") = 0 THEN <<>>
    ELSE [k \in 1..numColumns(ElementTable(p, "sh")) |->
            [name |-> ElementTable(p, "sh")[k].name,
             data |-> [r \in 1..n |->
                         ShValue(ByteAt(ElementTable(p, "sh")[k].data,
                                        r - 1))]]]

decompressPly(p) == DecodedColumns(p) \o ShColumns(p, numSplats(p))

\* the indices (from 0) decompressPly reads the chunk bounds at, and those
\* it reads the bytes of the sh columns at
Reads(p) ==
    [chunk |-> {ChunkIndex(i) : i \in 0..(numSplats(p) - 1)},
     sh |-> IF FindElement(p, "sh") = 0 THEN {} ELSE 0..(numSplats(p) - 1)]

\* ------------------------------------------- compressed PLY: packed files

\* packed words: all zeros, all ones, single fields all ones, single bits,
\* each value of the two top bits, and mixed patterns
PackedWords ==
    <<U32(0, 0), U32(65535, 65535), U32(32768, 0),
      U32(65504, 0), U32(31, 63488), U32(0, 2047),
      U32(16384, 0), U32(49152, 0), U32(16368, 0),
      U32(15, 64512), U32(0, 1023), U32(4660, 22136),
      U32(57005, 48879), U32(0, 255), U32(65280, 0),
      U32(32, 0), U32(0, 2048), U32(40968, 512)>>

\* the word of row i (from 1) of the j-th packed column, k picks the start
WordAt(k, j, i) ==
    PackedWords[((k + 5 * j + i + 7) % Len(PackedWords)) + 1]

SourceBytes == <<0, 255, 128, 1>>

ByteOf(j, i) == SourceBytes[((j + i) % Len(SourceBytes)) + 1]

\* the bound a chunk column holds for chunk ci (from 0): every column and
\* every chunk its own values, min below max
BoundOf(j, ci, isMax) ==
    IF isMax THEN Q(2 * j + 40 * ci + 1, 2) ELSE QInt(-j - 20 * ci)

BoundVariants == {"finite", "flat", "infinite"}

IsMaxName(j) == j \in {4, 5, 6, 10, 11, 12, 16, 17, 18}

\* the column a max column bounds together with: its min column
MinOf(j) == j - 3

Bound(variant, j, ci) ==
    CASE variant = "finite" -> BoundOf(j, ci, IsMaxName(j))
      [] variant = "flat" ->
            BoundOf(IF IsMaxName(j) THEN MinOf(j) ELSE j, ci, FALSE)
      [] variant = "infinite" ->
            IF IsMaxName(j) THEN PosInf ELSE BoundOf(j, ci, FALSE)

ChunkColumns(names, variant, rows) ==
    [j \in 1..Len(names) |->
        [name |-> names[j], dataType |-> "float32",
         data |-> [r \in 1..rows |-> Bound(variant, j, r - 1)]]]

VertexColumns(k, n) ==
    [j \in 1..Len(vertexProperties) |->
        [name |-> vertexProperties[j], dataType |-> "uint32",
         data |-> [i \in 1..n |-> WordAt(k, j, i)]]]

ShSource(n) ==
    [j \in 1..9 |->
        [name |-> RestName(j - 1), dataType |-> "uint8",
         data |-> [i \in 1..n |-> ByteOf(j, i)]]]

ChunkNames(colors) ==
    IF colors THEN requiredChunkProperties \o colorChunkProperties
    ELSE requiredChunkProperties

PackedFile(k, n, colors, sh, variant) ==
    [elements |->
        <<[name |-> "chunk",
           dataTable |-> ChunkColumns(ChunkNames(colors), variant,
                                      CeilDiv(n, CHUNK_SIZE))],
          [name |-> "vertex", dataTable |-> VertexColumns(k, n)]>>
        \o (IF sh THEN <<[name |-> "sh", dataTable |-> ShSource(n)]>>
            ELSE <<>>)]

\* the numbers of splats: one, and one more than fills all chunks but one
SplatCounts == {1, CHUNK_SIZE * (MaxChunks - 1) + 1}

PackedFiles ==
    {PackedFile(k, 1, colors, sh, variant) :
        k \in 1..Len(PackedWords), colors \in BOOLEAN, sh \in BOOLEAN,
        variant \in BoundVariants}
    \cup {PackedFile(1, n, colors, sh, variant) :
        n \in SplatCounts, colors \in BOOLEAN, sh \in BOOLEAN,
        variant \in BoundVariants}

\* ------------------------------------------------ compressed PLY: the run
\* SpecPly reads a file, asks isCompressedPly, and decompresses the file
\* when the answer is yes.

PlyFiles == DetectFiles \cup PackedFiles

PlyInit ==
    /\ \E f \in PlyFiles :
          ply = [pc |-> "read", file |-> f, compressed |-> FALSE,
                 result |-> <<>>, reads |-> [chunk |-> {}, sh |-> {}]]
    /\ st = enter(<<>>, <<>>)
    /\ input0 = st
    /\ prev = st
    /\ log = <<>>
    /\ cli = CliIdle
    /\ run = RunIdle
    /\ rot = RotIdle
    /\ dev = DevIdle

\* isCompressedPly(ply)
Detect ==
    /\ ply.pc = "read"
    /\ ply' = [ply EXCEPT !.pc = "detected",
                          !.compressed = isCompressedPly(ply.file)]
    /\ UNCHANGED <<pipeVars, cli, run, rot, dev>>

\* decompressPly(ply), called for a file the detector accepts
Decompress ==
    /\ ply.pc = "detected"
    /\ ply.compressed
    /\ ply' = [ply EXCEPT !.pc = "decompressed",
                          !.result = decompressPly(ply.file),
                          !.reads = Reads(ply.file)]
    /\ UNCHANGED <<pipeVars, cli, run, rot, dev>>

PlyNext == Detect \/ Decompress

SpecPly == PlyInit /\ [][PlyNext]_vars

\* the table has exactly the columns named names, each of the type
ExactColumns(dataTable, names, type) ==
    /\ Len(dataTable) = Len(names)
    /\ \A i \in 1..Len(names) :
          \E j \in 1..Len(dataTable) :
              /\ dataTable[j].name = names[i]
              /\ dataTable[j].dataType = type

SchemaChunk(p) ==
    /\ FindElement(p, "chunk") # 0
    /\ \/ ExactColumns(ElementTable(p, "chunk"), requiredChunkProperties,
                       "float32")
       \/ ExactColumns(ElementTable(p, "chunk"),
                       requiredChunkProperties \o colorChunkProperties,
                       "float32")

SchemaVertex(p) ==
    /\ FindElement(p, "vertex") # 0
    /\ ExactColumns(ElementTable(p, "vertex"), vertexProperties, "uint32")

SchemaSh(p) ==
    /\ FindElement(p, "sh") # 0
    /\ \E n \in {9, 24, 45} :
          ExactColumns(ElementTable(p, "sh"), RestNames0(n), "uint8")
    /\ plyRows(ElementTable(p, "sh")) = plyRows(ElementTable(p, "vertex"))

\* the packed schema as the format states it
PackedSchema(p) ==
    /\ Len(p.elements) \in {2, 3}
    /\ SchemaChunk(p)
    /\ SchemaVertex(p)
    /\ CeilDiv(plyRows(ElementTable(p, "vertex")), CHUNK_SIZE)
          = plyRows(ElementTable(p, "chunk"))
    /\ Len(p.elements) = 3 => SchemaSh(p)

\* C11: isCompressedPly answers true exactly for the files of the packed
\* schema: 2 or 3 elements, a chunk element of exactly 12 or 18 float32
\* columns, a vertex element of exactly the 4 packed uint32 columns, one chunk
\* row per 256 vertex rows, and with 3 elements an sh element of exactly 9,
\* 24 or 45 uint8 columns f_rest_0.. with as many rows as vertex.
C11_DetectsPackedSchema ==
    ply.pc = "detected" => (ply.compressed <=> PackedSchema(ply.file))

\* --------------------------------------------- claims about decompressPly

Decompressed == ply.pc = "decompressed"

\* the rows of the result, counted from 0
Splats == 0..(numSplats(ply.file) - 1)

\* the value of column name of the result at row i (from 0)
Out(name, i) == getColumnByName(ply.result, name).data[i + 1]

\* the bounds of chunk ci (from 0)
ChunkBound(name, ci) == getChunk(ply.file, name)[ci + 1]

\* the three fields of a word laid out 11/10/11 from the top bit down
FieldX(w) == w.hi \div 32

FieldY(w) == (w.hi % 32) * 32 + w.lo \div 2048

FieldZ(w) == w.lo % 2048

\* x * 2^21 + y * 2^11 + z, as a word
Join111011(x, y, z) == U32(x * 32 + y \div 32, (y % 32) * 2048 + z)

\* a + (b - a) * f / top
Between(a, b, f, top) == QAdd(a, QMul(QSub(b, a), Q(f, top)))

\* the decoded value out of a field f of top + 1 values between the bounds
\* min and max: the interpolation, and the two ends
DecodesField(out, min, max, f, top) ==
    /\ (min.k = "num" /\ max.k = "num") => out = Between(min, max, f, top)
    /\ f = 0 => out = min
    /\ f = top => out = max

\* the same, the two ends stated for finite bounds only
DecodesFiniteField(out, min, max, f, top) ==
    (min.k = "num" /\ max.k = "num") =>
        /\ out = Between(min, max, f, top)
        /\ f = 0 => out = min
        /\ f = top => out = max

\* the three columns cols decode the word w of row i by Decodes
Decodes111011(Decodes(_, _, _, _, _), w, i, cols, mins, maxs) ==
    /\ Join111011(FieldX(w), FieldY(w), FieldZ(w)) = w
    /\ Decodes(Out(cols[1], i), ChunkBound(mins[1], i \div 256),
               ChunkBound(maxs[1], i \div 256), FieldX(w), 2047)
    /\ Decodes(Out(cols[2], i), ChunkBound(mins[2], i \div 256),
               ChunkBound(maxs[2], i \div 256), FieldY(w), 1023)
    /\ Decodes(Out(cols[3], i), ChunkBound(mins[3], i \div 256),
               ChunkBound(maxs[3], i \div 256), FieldZ(w), 2047)

PositionAndScale(Decodes(_, _, _, _, _)) ==
    \A i \in Splats :
        /\ Decodes111011(Decodes, Packed(ply.file, "packed_position")[i + 1],
               i, <<"x", "y", "z">>, <<"min_x", "min_y", "min_z">>,
               <<"max_x", "max_y", "max_z">>)
        /\ Decodes111011(Decodes, Packed(ply.file, "packed_scale")[i + 1],
               i, <<"scale_0", "scale_1", "scale_2">>,
               <<"min_scale_x", "min_scale_y", "min_scale_z">>,
               <<"max_scale_x", "max_scale_y", "max_scale_z">>)

\* C12 as stated: every position and scale word splits into the 11/10/11
\* bit fields, which are disjoint and cover it; each field over 2^bits - 1
\* is interpolated between the bounds of chunk floor(i / 256), an all-zero
\* field giving the chunk min and an all-ones field the chunk max.
C12_Original == Decompressed => PositionAndScale(DecodesField)

\* C12 amended: the same for chunks whose two bounds are finite numbers.
C12_PackedPosition == Decompressed => PositionAndScale(DecodesFiniteField)

\* C12 witness: a splat of the second chunk with an all-zero x field decoded
\* to that chunk's min, and a splat whose word has bit 31 set and an all-ones
\* x field decoded to the max, the bounds finite and different
C12_Witness ==
    /\ Decompressed
    /\ \E i \in Splats :
          /\ i \div 256 = 1
          /\ FieldX(Packed(ply.file, "packed_position")[i + 1]) = 0
          /\ Out("x", i) = ChunkBound("min_x", 1)
          /\ ChunkBound("min_x", 1) # ChunkBound("min_x", 0)
    /\ \E i \in Splats :
          /\ Packed(ply.file, "packed_position")[i + 1].hi >= 32768
          /\ FieldX(Packed(ply.file, "packed_position")[i + 1]) = 2047
          /\ Out("x", i) = ChunkBound("max_x", i \div 256)
          /\ ChunkBound("max_x", i \div 256).k = "num"
          /\ ChunkBound("max_x", i \div 256) # ChunkBound("min_x", i \div 256)

\* the fields of a rotation word: 2 bits, then three times 10 bits
Dropped(w) == w.hi \div 16384

FieldA(w) == (w.hi % 16384) \div 16

FieldB(w) == (w.hi % 16) * 64 + w.lo \div 1024

FieldC(w) == w.lo % 1024

\* k * 2^30 + a * 2^20 + b * 2^10 + c, as a word
JoinRot(k, a, b, c) ==
    U32(k * 16384 + a * 16 + b \div 64, (b % 64) * 1024 + c)

\* (f / 1023 - 1/2) * sqrt(2) of a 10-bit field f
Kept(f) == Root2(Q(2 * f - 1023, 2046))

\* 1 - a^2 - b^2 - c^2 of the three kept components, a rational
Remainder(a, b, c) ==
    Q(2093058 - (2 * a - 1023) * (2 * a - 1023)
              - (2 * b - 1023) * (2 * b - 1023)
              - (2 * c - 1023) * (2 * c - 1023), 2093058)

\* the non-negative component that completes the three kept ones
Completing(a, b, c) ==
    Sqrt(IF Remainder(a, b, c).v < 0 THEN QInt(0) ELSE Remainder(a, b, c))

\* the four components: the kept ones in order, the completing one at k
SmallestThree(k, kept, m) ==
    [j \in 0..3 |-> IF j = k THEN m
                    ELSE IF j < k THEN kept[j + 1] ELSE kept[j]]

RotationOf(w) ==
    SmallestThree(Dropped(w),
                  <<Kept(FieldA(w)), Kept(FieldB(w)), Kept(FieldC(w))>>,
                  Completing(FieldA(w), FieldB(w), FieldC(w)))

RotWord(i) == Packed(ply.file, "packed_rotation")[i + 1]

\* C13: every rotation word decodes by the smallest-three scheme: the top 2
\* bits name the dropped component k, rot_k is the non-negative square root
\* of max(0, 1 - a^2 - b^2 - c^2), the other three components come in order
\* from the 10-bit fields at bits 29-20, 19-10 and 9-0, and the four fields
\* are disjoint and cover the word.
C13_SmallestThree ==
    Decompressed =>
        \A i \in Splats :
            /\ JoinRot(Dropped(RotWord(i)), FieldA(RotWord(i)),
                       FieldB(RotWord(i)), FieldC(RotWord(i))) = RotWord(i)
            /\ Dropped(RotWord(i)) \in 0..3
            /\ Out("rot_0", i) = RotationOf(RotWord(i))[0]
            /\ Out("rot_1", i) = RotationOf(RotWord(i))[1]
            /\ Out("rot_2", i) = RotationOf(RotWord(i))[2]
            /\ Out("rot_3", i) = RotationOf(RotWord(i))[3]
            /\ Out(GSNames[8 + Dropped(RotWord(i))], i).k = "sqrt"
            /\ Out(GSNames[8 + Dropped(RotWord(i))], i).q.v >= 0

\* C13 witness: one file with a word that drops component 2 and completes
\* it by a positive root, and a word with bit 31 set whose three fields have
\* squares above 1, completed by 0
C13_Witness ==
    /\ Decompressed
    /\ \E i \in Splats :
          /\ Dropped(RotWord(i)) = 2
          /\ Out("rot_2", i).k = "sqrt"
          /\ Out("rot_2", i).q.v > 0
          /\ Out("rot_0", i) = Kept(FieldA(RotWord(i)))
    /\ \E i \in Splats :
          /\ Dropped(RotWord(i)) = 3
          /\ Remainder(FieldA(RotWord(i)), FieldB(RotWord(i)),
                       FieldC(RotWord(i))).v < 0
          /\ Out("rot_3", i) = Sqrt(QInt(0))

\* ------------------------------------------------ RotateSH: the numbers
\* The constants of RotateSH are square roots of rationals over 2, 3 and 5,
\* so every entry of its matrices and every coefficient it computes from
\* rational inputs lies in the field Q(sqrt 2, sqrt 3, sqrt 5).  An element
\* of the field is the sequence of its 8 rational coordinates over the basis
\* sqrt(m) for m = 1, 2, 3, 6, 5, 10, 15, 30: coordinate b + 1 belongs to
\* the product of the primes whose bit is set in b (bit 0: 2, bit 1: 3,
\* bit 2: 5).  A number is such an element, or NaN.

Bit(b, n) == (b \div Pow2(n)) % 2

\* the element of a set of one element.  The operators below take their
\* arguments through such sets, {f(a) : a \in {x}}, so that each argument
\* is evaluated once, however often the body names it.
The(S) == CHOOSE v \in S : TRUE

\* the index of the product of two basis elements, and its rational factor
BasisXor(i, j) ==
    ((Bit(i, 0) + Bit(j, 0)) % 2) + 2 * ((Bit(i, 1) + Bit(j, 1)) % 2)
        + 4 * ((Bit(i, 2) + Bit(j, 2)) % 2)

BasisFactor(i, j) ==
    (IF Bit(i, 0) + Bit(j, 0) = 2 THEN 2 ELSE 1)
        * (IF Bit(i, 1) + Bit(j, 1) = 2 THEN 3 ELSE 1)
        * (IF Bit(i, 2) + Bit(j, 2) = 2 THEN 5 ELSE 1)

\* the two as tables, for the basis indices from 0 to 7
BasisIndex == [i \in 0..7 |-> [j \in 0..7 |-> BasisXor(i, j)]]

BasisScale == [i \in 0..7 |-> [j \in 0..7 |-> BasisFactor(i, j)]]

FZero ==
    <<QInt(0), QInt(0), QInt(0), QInt(0), QInt(0), QInt(0), QInt(0), QInt(0)>>

\* the rational q, and q * sqrt(m) for the basis index b
FRat(q) == [FZero EXCEPT ![1] = q]

FBasis(q, i) == [FZero EXCEPT ![i + 1] = q]

FInt(n) == FRat(QInt(n))

\* a + b and a * b for two coordinates
FPlus(a, b) == IF a.v = 0 THEN b ELSE IF b.v = 0 THEN a ELSE QAdd(a, b)

FTimes(a, b) == IF a.v = 0 \/ b.v = 0 THEN QInt(0) ELSE QMul(a, b)

FSum(x, y) ==
    IF y = FZero THEN x
    ELSE IF x = FZero THEN y
    ELSE
    <<FPlus(x[1], y[1]), FPlus(x[2], y[2]), FPlus(x[3], y[3]),
      FPlus(x[4], y[4]), FPlus(x[5], y[5]), FPlus(x[6], y[6]),
      FPlus(x[7], y[7]), FPlus(x[8], y[8])>>

FAdd(x, y) == The({FSum(a, b) : a \in {x}, b \in {y}})

FMinus(x) ==
    <<QNeg(x[1]), QNeg(x[2]), QNeg(x[3]), QNeg(x[4]),
      QNeg(x[5]), QNeg(x[6]), QNeg(x[7]), QNeg(x[8])>>

FNeg(x) == The({FMinus(a) : a \in {x}})

FSub(x, y) == FAdd(x, FNeg(y))

\* the term of coordinate k (from 0) of x * y that comes from x[i]
FScaled(a, factor) == IF factor = 1 THEN a ELSE FTimes(QInt(factor), a)

FMulTerm(x, y, k, i) ==
    IF x[i].v = 0 THEN QInt(0)
    ELSE FScaled(FTimes(x[i], y[BasisIndex[i - 1][k] + 1]),
                 BasisScale[i - 1][BasisIndex[i - 1][k]])

\* coordinate k (from 0) of x * y: the sum of its terms from x[1] to x[i]
RECURSIVE FMulUpTo(_, _, _, _)
FMulUpTo(x, y, k, i) ==
    IF i = 0 THEN QInt(0)
    ELSE The({FPlus(a, b) : a \in {FMulUpTo(x, y, k, i - 1)},
                           b \in {FMulTerm(x, y, k, i)}})

FMulAt(x, y, k) == FMulUpTo(x, y, k, 8)

\* the first n coordinates of x * y
RECURSIVE FProductTo(_, _, _)
FProductTo(x, y, n) ==
    IF n = 0 THEN <<>>
    ELSE Append(FProductTo(x, y, n - 1), FMulAt(x, y, n - 1))

FProduct(x, y) ==
    IF x = FZero \/ y = FZero THEN FZero ELSE FProductTo(x, y, 8)

FMul(x, y) == The({FProduct(a, b) : a \in {x}, b \in {y}})

\* n = s * s * r with r a product of distinct primes among 2, 3, 5: the
\* pair <<s, r>>, found by taking the squares 4, 9 and 25 out of n
RECURSIVE SquareOut(_, _)
SquareOut(s, r) ==
    IF r % 4 = 0 THEN SquareOut(2 * s, r \div 4)
    ELSE IF r % 9 = 0 THEN SquareOut(3 * s, r \div 9)
    ELSE IF r % 25 = 0 THEN SquareOut(5 * s, r \div 25)
    ELSE <<s, r>>

\* the basis index of a product r of distinct primes among 2, 3, 5
BasisOf(r) ==
    (IF r % 2 = 0 THEN 1 ELSE 0) + (IF r % 3 = 0 THEN 2 ELSE 0)
        + (IF r % 5 = 0 THEN 4 ELSE 0)

SqrtFrom(sr, q) == FBasis(Q(sr[1], q), BasisOf(sr[2]))

\* Math.sqrt(p / q) = sqrt(p * q) / q
MathSqrt(p, q) == SqrtFrom(SquareOut(1, p * q), q)

\* a number of a coefficient buffer: an element of the field, or NaN
V(x) == [k |-> "num", c |-> x]

VNaN == [k |-> "nan", c |-> FZero]

VInt(n) == V(FInt(n))

VSum(a, b) ==
    IF a.k = "nan" \/ b.k = "nan" THEN VNaN ELSE V(FAdd(a.c, b.c))

VAdd(x, y) == The({VSum(a, b) : a \in {x}, b \in {y}})

VProduct(a, b) ==
    IF a.k = "nan" \/ b.k = "nan" THEN VNaN ELSE V(FMul(a.c, b.c))

VMul(x, y) == The({VProduct(a, b) : a \in {x}, b \in {y}})

\* Float32Array keeps a number to float32 precision.  The model's float32
\* numbers are the field elements whose coordinates are multiples of
\* 1 / Grain; storing rounds each coordinate to the nearest of them.
Grain == 4

RoundTo(n, d, g) == Q((2 * g * n + d) \div (2 * d), g)

QRound(q) == RoundTo(q.v, q.d, Grain)

Float32(a) ==
    IF a.k = "nan" THEN a
    ELSE V(<<QRound(a.c[1]), QRound(a.c[2]), QRound(a.c[3]), QRound(a.c[4]),
             QRound(a.c[5]), QRound(a.c[6]), QRound(a.c[7]), QRound(a.c[8])>>)

Fround(x) == The({Float32(a) : a \in {x}})

\* the value a buffer of the kind keeps when a is stored in it
Stored(kind, a) == IF kind = "f32" THEN Fround(a) ELSE a

\* ------------------------------------------------- RotateSH: constructor

\* kSqrtPP_QQ = Math.sqrt(PP / QQ): the field r<PP>_<QQ> of kSqrt
kSqrt ==
    [r03_02 |-> MathSqrt(3, 2),
     r01_03 |-> MathSqrt(1, 3),
     r02_03 |-> MathSqrt(2, 3),
     r04_03 |-> MathSqrt(4, 3),
     r01_04 |-> MathSqrt(1, 4),
     r03_04 |-> MathSqrt(3, 4),
     r01_05 |-> MathSqrt(1, 5),
     r03_05 |-> MathSqrt(3, 5),
     r06_05 |-> MathSqrt(6, 5),
     r08_05 |-> MathSqrt(8, 5),
     r09_05 |-> MathSqrt(9, 5),
     r01_06 |-> MathSqrt(1, 6),
     r05_06 |-> MathSqrt(5, 6),
     r03_08 |-> MathSqrt(3, 8),
     r05_08 |-> MathSqrt(5, 8),
     r09_08 |-> MathSqrt(9, 8),
     r05_09 |-> MathSqrt(5, 9),
     r08_09 |-> MathSqrt(8, 9),
     r01_10 |-> MathSqrt(1, 10),
     r03_10 |-> MathSqrt(3, 10),
     r01_12 |-> MathSqrt(1, 12),
     r04_15 |-> MathSqrt(4, 15),
     r01_16 |-> MathSqrt(1, 16),
     r15_16 |-> MathSqrt(15, 16),
     r01_18 |-> MathSqrt(1, 18),
     r01_60 |-> MathSqrt(1, 60)]

\* band 2: the matrix sh2, a sequence of rows
sh2Of(sh1) ==
    <<<<FMul(kSqrt.r01_04, FAdd(FAdd(FMul(sh1[3][3], sh1[1][1]),
           FMul(sh1[3][1], sh1[1][3])), FAdd(FMul(sh1[1][3], sh1[3][1]),
           FMul(sh1[1][1], sh1[3][3])))),
       FAdd(FMul(sh1[3][2], sh1[1][1]), FMul(sh1[1][2], sh1[3][1])),
       FMul(kSqrt.r03_04, FAdd(FMul(sh1[3][2], sh1[1][2]), FMul(sh1[1][2],
           sh1[3][2]))),
       FAdd(FMul(sh1[3][2], sh1[1][3]), FMul(sh1[1][2], sh1[3][3])),
       FMul(kSqrt.r01_04, FAdd(FSub(FMul(sh1[3][3], sh1[1][3]),
           FMul(sh1[3][1], sh1[1][1])), FSub(FMul(sh1[1][3], sh1[3][3]),
           FMul(sh1[1][1], sh1[3][1]))))>>,
      <<FMul(kSqrt.r01_04, FAdd(FAdd(FMul(sh1[2][3], sh1[1][1]),
           FMul(sh1[2][1], sh1[1][3])), FAdd(FMul(sh1[1][3], sh1[2][1]),
           FMul(sh1[1][1], sh1[2][3])))),
       FAdd(FMul(sh1[2][2], sh1[1][1]), FMul(sh1[1][2], sh1[2][1])),
       FMul(kSqrt.r03_04, FAdd(FMul(sh1[2][2], sh1[1][2]), FMul(sh1[1][2],
           sh1[2][2]))),
       FAdd(FMul(sh1[2][2], sh1[1][3]), FMul(sh1[1][2], sh1[2][3])),
       FMul(kSqrt.r01_04, FAdd(FSub(FMul(sh1[2][3], sh1[1][3]),
           FMul(sh1[2][1], sh1[1][1])), FSub(FMul(sh1[1][3], sh1[2][3]),
           FMul(sh1[1][1], sh1[2][1]))))>>,
      <<FSub(FMul(kSqrt.r01_03, FAdd(FMul(sh1[2][3], sh1[2][1]),
           FMul(sh1[2][1], sh1[2][3]))), FMul(kSqrt.r01_12,
           FAdd(FAdd(FMul(sh1[3][3], sh1[3][1]), FMul(sh1[3][1], sh1[3][3])),
           FAdd(FMul(sh1[1][3], sh1[1][1]), FMul(sh1[1][1], sh1[1][3]))))),
       FSub(FMul(FMul(kSqrt.r04_03, sh1[2][2]), sh1[2][1]), FMul(kSqrt.r01_03,
           FAdd(FMul(sh1[3][2], sh1[3][1]), FMul(sh1[1][2], sh1[1][1])))),
       FSub(FMul(sh1[2][2], sh1[2][2]), FMul(kSqrt.r01_04,
           FAdd(FMul(sh1[3][2], sh1[3][2]), FMul(sh1[1][2], sh1[1][2])))),
       FSub(FMul(FMul(kSqrt.r04_03, sh1[2][2]), sh1[2][3]), FMul(kSqrt.r01_03,
           FAdd(FMul(sh1[3][2], sh1[3][3]), FMul(sh1[1][2], sh1[1][3])))),
       FSub(FMul(kSqrt.r01_03, FSub(FMul(sh1[2][3], sh1[2][3]),
           FMul(sh1[2][1], sh1[2][1]))), FMul(kSqrt.r01_12,
           FAdd(FSub(FMul(sh1[3][3], sh1[3][3]), FMul(sh1[3][1], sh1[3][1])),
           FSub(FMul(sh1[1][3], sh1[1][3]), FMul(sh1[1][1], sh1[1][1])))))>>,
      <<FMul(kSqrt.r01_04, FAdd(FAdd(FMul(sh1[2][3], sh1[3][1]),
           FMul(sh1[2][1], sh1[3][3])), FAdd(FMul(sh1[3][3], sh1[2][1]),
           FMul(sh1[3][1], sh1[2][3])))),
       FAdd(FMul(sh1[2][2], sh1[3][1]), FMul(sh1[3][2], sh1[2][1])),
       FMul(kSqrt.r03_04, FAdd(FMul(sh1[2][2], sh1[3][2]), FMul(sh1[3][2],
           sh1[2][2]))),
       FAdd(FMul(sh1[2][2], sh1[3][3]), FMul(sh1[3][2], sh1[2][3])),
       FMul(kSqrt.r01_04, FAdd(FSub(FMul(sh1[2][3], sh1[3][3]),
           FMul(sh1[2][1], sh1[3][1])), FSub(FMul(sh1[3][3], sh1[2][3]),
           FMul(sh1[3][1], sh1[2][1]))))>>,
      <<FMul(kSqrt.r01_04, FSub(FAdd(FMul(sh1[3][3], sh1[3][1]),
           FMul(sh1[3][1], sh1[3][3])), FAdd(FMul(sh1[1][3], sh1[1][1]),
           FMul(sh1[1][1], sh1[1][3])))),
       FSub(FMul(sh1[3][2], sh1[3][1]), FMul(sh1[1][2], sh1[1][1])),
       FMul(kSqrt.r03_04, FSub(FMul(sh1[3][2], sh1[3][2]), FMul(sh1[1][2],
           sh1[1][2]))),
       FSub(FMul(sh1[3][2], sh1[3][3]), FMul(sh1[1][2], sh1[1][3])),
       FMul(kSqrt.r01_04, FSub(FSub(FMul(sh1[3][3], sh1[3][3]),
           FMul(sh1[3][1], sh1[3][1])), FSub(FMul(sh1[1][3], sh1[1][3]),
           FMul(sh1[1][1], sh1[1][1]))))>>>>

\* band 3: the matrix sh3, a sequence of rows
sh3Of(sh1, sh2) ==
    <<<<FMul(kSqrt.r01_04, FAdd(FAdd(FMul(sh1[3][3], sh2[1][1]),
           FMul(sh1[3][1], sh2[1][5])), FAdd(FMul(sh1[1][3], sh2[5][1]),
           FMul(sh1[1][1], sh2[5][5])))),
       FMul(kSqrt.r03_02, FAdd(FMul(sh1[3][2], sh2[1][1]), FMul(sh1[1][2],
           sh2[5][1]))),
       FMul(kSqrt.r15_16, FAdd(FMul(sh1[3][2], sh2[1][2]), FMul(sh1[1][2],
           sh2[5][2]))),
       FMul(kSqrt.r05_06, FAdd(FMul(sh1[3][2], sh2[1][3]), FMul(sh1[1][2],
           sh2[5][3]))),
       FMul(kSqrt.r15_16, FAdd(FMul(sh1[3][2], sh2[1][4]), FMul(sh1[1][2],
           sh2[5][4]))),
       FMul(kSqrt.r03_02, FAdd(FMul(sh1[3][2], sh2[1][5]), FMul(sh1[1][2],
           sh2[5][5]))),
       FMul(kSqrt.r01_04, FAdd(FSub(FMul(sh1[3][3], sh2[1][5]),
           FMul(sh1[3][1], sh2[1][1])), FSub(FMul(sh1[1][3], sh2[5][5]),
           FMul(sh1[1][1], sh2[5][1]))))>>,
      <<FAdd(FMul(kSqrt.r01_06, FAdd(FMul(sh1[2][3], sh2[1][1]),
           FMul(sh1[2][1], sh2[1][5]))), FMul(kSqrt.r01_06,
           FAdd(FAdd(FMul(sh1[3][3], sh2[2][1]), FMul(sh1[3][1], sh2[2][5])),
           FAdd(FMul(sh1[1][3], sh2[4][1]), FMul(sh1[1][1], sh2[4][5]))))),
       FAdd(FMul(sh1[2][2], sh2[1][1]), FAdd(FMul(sh1[3][2], sh2[2][1]),
           FMul(sh1[1][2], sh2[4][1]))),
       FAdd(FMul(FMul(kSqrt.r05_08, sh1[2][2]), sh2[1][2]), FMul(kSqrt.r05_08,
           FAdd(FMul(sh1[3][2], sh2[2][2]), FMul(sh1[1][2], sh2[4][2])))),
       FAdd(FMul(FMul(kSqrt.r05_09, sh1[2][2]), sh2[1][3]), FMul(kSqrt.r05_09,
           FAdd(FMul(sh1[3][2], sh2[2][3]), FMul(sh1[1][2], sh2[4][3])))),
       FAdd(FMul(FMul(kSqrt.r05_08, sh1[2][2]), sh2[1][4]), FMul(kSqrt.r05_08,
           FAdd(FMul(sh1[3][2], sh2[2][4]), FMul(sh1[1][2], sh2[4][4])))),
       FAdd(FMul(sh1[2][2], sh2[1][5]), FAdd(FMul(sh1[3][2], sh2[2][5]),
           FMul(sh1[1][2], sh2[4][5]))),
       FAdd(FMul(kSqrt.r01_06, FSub(FMul(sh1[2][3], sh2[1][5]),
           FMul(sh1[2][1], sh2[1][1]))), FMul(kSqrt.r01_06,
           FAdd(FSub(FMul(sh1[3][3], sh2[2][5]), FMul(sh1[3][1], sh2[2][1])),
           FSub(FMul(sh1[1][3], sh2[4][5]), FMul(sh1[1][1], sh2[4][1])))))>>,
      <<FSub(FAdd(FMul(kSqrt.r04_15, FAdd(FMul(sh1[2][3], sh2[2][1]),
           FMul(sh1[2][1], sh2[2][5]))), FMul(kSqrt.r01_05,
           FAdd(FMul(sh1[1][3], sh2[3][1]), FMul(sh1[1][1], sh2[3][5])))),
           FMul(kSqrt.r01_60, FSub(FAdd(FMul(sh1[3][3], sh2[1][1]),
           FMul(sh1[3][1], sh2[1][5])), FAdd(FMul(sh1[1][3], sh2[5][1]),
           FMul(sh1[1][1], sh2[5][5]))))),
       FSub(FAdd(FMul(FMul(kSqrt.r08_05, sh1[2][2]), sh2[2][1]),
           FMul(FMul(kSqrt.r06_05, sh1[1][2]), sh2[3][1])), FMul(kSqrt.r01_10,
           FSub(FMul(sh1[3][2], sh2[1][1]), FMul(sh1[1][2], sh2[5][1])))),
       FSub(FAdd(FMul(sh1[2][2], sh2[2][2]), FMul(FMul(kSqrt.r03_04,
           sh1[1][2]), sh2[3][2])), FMul(kSqrt.r01_16, FSub(FMul(sh1[3][2],
           sh2[1][2]), FMul(sh1[1][2], sh2[5][2])))),
       FSub(FAdd(FMul(FMul(kSqrt.r08_09, sh1[2][2]), sh2[2][3]),
           FMul(FMul(kSqrt.r02_03, sh1[1][2]), sh2[3][3])), FMul(kSqrt.r01_18,
           FSub(FMul(sh1[3][2], sh2[1][3]), FMul(sh1[1][2], sh2[5][3])))),
       FSub(FAdd(FMul(sh1[2][2], sh2[2][4]), FMul(FMul(kSqrt.r03_04,
           sh1[1][2]), sh2[3][4])), FMul(kSqrt.r01_16, FSub(FMul(sh1[3][2],
           sh2[1][4]), FMul(sh1[1][2], sh2[5][4])))),
       FSub(FAdd(FMul(FMul(kSqrt.r08_05, sh1[2][2]), sh2[2][5]),
           FMul(FMul(kSqrt.r06_05, sh1[1][2]), sh2[3][5])), FMul(kSqrt.r01_10,
           FSub(FMul(sh1[3][2], sh2[1][5]), FMul(sh1[1][2], sh2[5][5])))),
       FSub(FAdd(FMul(kSqrt.r04_15, FSub(FMul(sh1[2][3], sh2[2][5]),
           FMul(sh1[2][1], sh2[2][1]))), FMul(kSqrt.r01_05,
           FSub(FMul(sh1[1][3], sh2[3][5]), FMul(sh1[1][1], sh2[3][1])))),
           FMul(kSqrt.r01_60, FSub(FSub(FMul(sh1[3][3], sh2[1][5]),
           FMul(sh1[3][1], sh2[1][1])), FSub(FMul(sh1[1][3], sh2[5][5]),
           FMul(sh1[1][1], sh2[5][1])))))>>,
      <<FSub(FMul(kSqrt.r03_10, FAdd(FMul(sh1[2][3], sh2[3][1]),
           FMul(sh1[2][1], sh2[3][5]))), FMul(kSqrt.r01_10,
           FAdd(FAdd(FMul(sh1[3][3], sh2[4][1]), FMul(sh1[3][1], sh2[4][5])),
           FAdd(FMul(sh1[1][3], sh2[2][1]), FMul(sh1[1][1], sh2[2][5]))))),
       FSub(FMul(FMul(kSqrt.r09_05, sh1[2][2]), sh2[3][1]), FMul(kSqrt.r03_05,
           FAdd(FMul(sh1[3][2], sh2[4][1]), FMul(sh1[1][2], sh2[2][1])))),
       FSub(FMul(FMul(kSqrt.r09_08, sh1[2][2]), sh2[3][2]), FMul(kSqrt.r03_08,
           FAdd(FMul(sh1[3][2], sh2[4][2]), FMul(sh1[1][2], sh2[2][2])))),
       FSub(FMul(sh1[2][2], sh2[3][3]), FMul(kSqrt.r01_03,
           FAdd(FMul(sh1[3][2], sh2[4][3]), FMul(sh1[1][2], sh2[2][3])))),
       FSub(FMul(FMul(kSqrt.r09_08, sh1[2][2]), sh2[3][4]), FMul(kSqrt.r03_08,
           FAdd(FMul(sh1[3][2], sh2[4][4]), FMul(sh1[1][2], sh2[2][4])))),
       FSub(FMul(FMul(kSqrt.r09_05, sh1[2][2]), sh2[3][5]), FMul(kSqrt.r03_05,
           FAdd(FMul(sh1[3][2], sh2[4][5]), FMul(sh1[1][2], sh2[2][5])))),
       FSub(FMul(kSqrt.r03_10, FSub(FMul(sh1[2][3], sh2[3][5]),
           FMul(sh1[2][1], sh2[3][1]))), FMul(kSqrt.r01_10,
           FAdd(FSub(FMul(sh1[3][3], sh2[4][5]), FMul(sh1[3][1], sh2[4][1])),
           FSub(FMul(sh1[1][3], sh2[2][5]), FMul(sh1[1][1], sh2[2][1])))))>>,
      <<FSub(FAdd(FMul(kSqrt.r04_15, FAdd(FMul(sh1[2][3], sh2[4][1]),
           FMul(sh1[2][1], sh2[4][5]))), FMul(kSqrt.r01_05,
           FAdd(FMul(sh1[3][3], sh2[3][1]), FMul(sh1[3][1], sh2[3][5])))),
           FMul(kSqrt.r01_60, FAdd(FAdd(FMul(sh1[3][3], sh2[5][1]),
           FMul(sh1[3][1], sh2[5][5])), FAdd(FMul(sh1[1][3], sh2[1][1]),
           FMul(sh1[1][1], sh2[1][5]))))),
       FSub(FAdd(FMul(FMul(kSqrt.r08_05, sh1[2][2]), sh2[4][1]),
           FMul(FMul(kSqrt.r06_05, sh1[3][2]), sh2[3][1])), FMul(kSqrt.r01_10,
           FAdd(FMul(sh1[3][2], sh2[5][1]), FMul(sh1[1][2], sh2[1][1])))),
       FSub(FAdd(FMul(sh1[2][2], sh2[4][2]), FMul(FMul(kSqrt.r03_04,
           sh1[3][2]), sh2[3][2])), FMul(kSqrt.r01_16, FAdd(FMul(sh1[3][2],
           sh2[5][2]), FMul(sh1[1][2], sh2[1][2])))),
       FSub(FAdd(FMul(FMul(kSqrt.r08_09, sh1[2][2]), sh2[4][3]),
           FMul(FMul(kSqrt.r02_03, sh1[3][2]), sh2[3][3])), FMul(kSqrt.r01_18,
           FAdd(FMul(sh1[3][2], sh2[5][3]), FMul(sh1[1][2], sh2[1][3])))),
       FSub(FAdd(FMul(sh1[2][2], sh2[4][4]), FMul(FMul(kSqrt.r03_04,
           sh1[3][2]), sh2[3][4])), FMul(kSqrt.r01_16, FAdd(FMul(sh1[3][2],
           sh2[5][4]), FMul(sh1[1][2], sh2[1][4])))),
       FSub(FAdd(FMul(FMul(kSqrt.r08_05, sh1[2][2]), sh2[4][5]),
           FMul(FMul(kSqrt.r06_05, sh1[3][2]), sh2[3][5])), FMul(kSqrt.r01_10,
           FAdd(FMul(sh1[3][2], sh2[5][5]), FMul(sh1[1][2], sh2[1][5])))),
       FSub(FAdd(FMul(kSqrt.r04_15, FSub(FMul(sh1[2][3], sh2[4][5]),
           FMul(sh1[2][1], sh2[4][1]))), FMul(kSqrt.r01_05,
           FSub(FMul(sh1[3][3], sh2[3][5]), FMul(sh1[3][1], sh2[3][1])))),
           FMul(kSqrt.r01_60, FAdd(FSub(FMul(sh1[3][3], sh2[5][5]),
           FMul(sh1[3][1], sh2[5][1])), FSub(FMul(sh1[1][3], sh2[1][5]),
           FMul(sh1[1][1], sh2[1][1])))))>>,
      <<FAdd(FMul(kSqrt.r01_06, FAdd(FMul(sh1[2][3], sh2[5][1]),
           FMul(sh1[2][1], sh2[5][5]))), FMul(kSqrt.r01_06,
           FSub(FAdd(FMul(sh1[3][3], sh2[4][1]), FMul(sh1[3][1], sh2[4][5])),
           FAdd(FMul(sh1[1][3], sh2[2][1]), FMul(sh1[1][1], sh2[2][5]))))),
       FAdd(FMul(sh1[2][2], sh2[5][1]), FSub(FMul(sh1[3][2], sh2[4][1]),
           FMul(sh1[1][2], sh2[2][1]))),
       FAdd(FMul(FMul(kSqrt.r05_08, sh1[2][2]), sh2[5][2]), FMul(kSqrt.r05_08,
           FSub(FMul(sh1[3][2], sh2[4][2]), FMul(sh1[1][2], sh2[2][2])))),
       FAdd(FMul(FMul(kSqrt.r05_09, sh1[2][2]), sh2[5][3]), FMul(kSqrt.r05_09,
           FSub(FMul(sh1[3][2], sh2[4][3]), FMul(sh1[1][2], sh2[2][3])))),
       FAdd(FMul(FMul(kSqrt.r05_08, sh1[2][2]), sh2[5][4]), FMul(kSqrt.r05_08,
           FSub(FMul(sh1[3][2], sh2[4][4]), FMul(sh1[1][2], sh2[2][4])))),
       FAdd(FMul(sh1[2][2], sh2[5][5]), FSub(FMul(sh1[3][2], sh2[4][5]),
           FMul(sh1[1][2], sh2[2][5]))),
       FAdd(FMul(kSqrt.r01_06, FSub(FMul(sh1[2][3], sh2[5][5]),
           FMul(sh1[2][1], sh2[5][1]))), FMul(kSqrt.r01_06,
           FSub(FSub(FMul(sh1[3][3], sh2[4][5]), FMul(sh1[3][1], sh2[4][1])),
           FSub(FMul(sh1[1][3], sh2[2][5]), FMul(sh1[1][1], sh2[2][1])))))>>,
      <<FMul(kSqrt.r01_04, FSub(FAdd(FMul(sh1[3][3], sh2[5][1]),
           FMul(sh1[3][1], sh2[5][5])), FAdd(FMul(sh1[1][3], sh2[1][1]),
           FMul(sh1[1][1], sh2[1][5])))),
       FMul(kSqrt.r03_02, FSub(FMul(sh1[3][2], sh2[5][1]), FMul(sh1[1][2],
           sh2[1][1]))),
       FMul(kSqrt.r15_16, FSub(FMul(sh1[3][2], sh2[5][2]), FMul(sh1[1][2],
           sh2[1][2]))),
       FMul(kSqrt.r05_06, FSub(FMul(sh1[3][2], sh2[5][3]), FMul(sh1[1][2],
           sh2[1][3]))),
       FMul(kSqrt.r15_16, FSub(FMul(sh1[3][2], sh2[5][4]), FMul(sh1[1][2],
           sh2[1][4]))),
       FMul(kSqrt.r03_02, FSub(FMul(sh1[3][2], sh2[5][5]), FMul(sh1[1][2],
           sh2[1][5]))),
       FMul(kSqrt.r01_04, FSub(FSub(FMul(sh1[3][3], sh2[5][5]),
           FMul(sh1[3][1], sh2[5][1])), FSub(FMul(sh1[1][3], sh2[1][5]),
           FMul(sh1[1][1], sh2[1][1]))))>>>>

\* band 1: sh1 from rot = mat.data (rot[i] is data[i + 1])
sh1Of(data) ==
    <<<<data[5], FNeg(data[8]), data[2]>>,
      <<FNeg(data[6]), data[9], FNeg(data[3])>>,
      <<data[4], FNeg(data[7]), data[1]>>>>

WithSh3(sh1, sh2) == [sh1 |-> sh1, sh2 |-> sh2, sh3 |-> sh3Of(sh1, sh2)]

WithSh2(sh1) == The({WithSh3(sh1, sh2) : sh2 \in {sh2Of(sh1)}})

\* new RotateSH(mat): the three matrices apply closes over
RotateSH(mat) == The({WithSh2(sh1) : sh1 \in {sh1Of(mat)}})

\* ------------------------------------------------------ RotateSH: apply

\* a[i] read from a buffer: undefined past its end, NaN in a product
Coeff(a, i) == IF i <= Len(a) THEN a[i] ELSE VNaN

\* dp(n, start, a, b): the sum of a[start + i] * b[i] for i < n, from 0
RECURSIVE dp(_, _, _, _)
dp(n, start, a, b) ==
    IF n = 0 THEN VInt(0)
    ELSE VAdd(dp(n - 1, start, a, b), VMul(Coeff(a, start + n), V(b[n])))

\* the value assigned to result[i - 1]
Assigned(inst, i, src) ==
    IF i <= 3 THEN dp(3, 0, src, inst.sh1[i])
    ELSE IF i <= 8 THEN dp(5, 3, src, inst.sh2[i - 3])
    ELSE dp(7, 8, src, inst.sh3[i - 8])

\* the number of entries apply assigns in a result of the length
Bands(length) ==
    IF length < 3 THEN 0 ELSE IF length < 8 THEN 3
    ELSE IF length < 15 THEN 8 ELSE 15

\* the assignments result[i - 1] .. result[last - 1], in order.  When src
\* shares the memory of result, each assignment reads what the ones before
\* it wrote.
RECURSIVE Assign(_, _, _, _, _, _, _)
Assign(inst, kind, res, src, shared, i, last) ==
    IF i > last THEN res
    ELSE The({Assign(inst, kind, [res EXCEPT ![i] = a], src, shared,
                     i + 1, last) :
                a \in {Stored(kind, Assigned(inst, i,
                                   IF shared THEN res ELSE src))}})

\* coeffsIn.set(result): the first entries of coeffsIn take the float32
\* values of result, the others keep what an earlier call left
RECURSIVE SnapshotTo(_, _, _)
SnapshotTo(coeffs, data, n) ==
    IF n = 0 THEN <<>>
    ELSE Append(SnapshotTo(coeffs, data, n - 1),
                IF n <= Len(data) THEN Fround(data[n]) ELSE coeffs[n])

\* the same without the float32 conversion
SnapshotPlain(coeffs, data) ==
    data \o SubSeq(coeffs, Len(data) + 1, Len(coeffs))

Snapshot(coeffs, data) == SnapshotTo(coeffs, data, Len(coeffs))

\* the call with src omitted or the very object result: coeffsIn.set throws
\* RangeError, before it writes, when result is longer than coeffsIn
ApplyInPlace(inst, coeffs, result) ==
    IF Len(result.data) > Len(coeffs)
    THEN [threw |-> TRUE, data |-> result.data, coeffsIn |-> coeffs]
    ELSE The({[threw |-> FALSE,
               data |-> Assign(inst, result.kind, result.data, src, FALSE,
                               1, Bands(Len(result.data))),
               coeffsIn |-> src] :
                 src \in {Snapshot(coeffs, result.data)}})

\* the call with another object as src; a view is another object over the
\* memory of result
ApplyFrom(inst, coeffs, result, src) ==
    [threw |-> FALSE,
     data |-> Assign(inst, result.kind, result.data, src.data,
                     src.mode = "view", 1, Bands(Len(result.data))),
     coeffsIn |-> coeffs]

\* rotateSH.apply(result, src)
apply(inst, coeffs, result, src) ==
    IF src.mode \in {"omitted", "same"}
    THEN ApplyInPlace(inst, coeffs, result)
    ELSE ApplyFrom(inst, coeffs, result, src)

\* ------------------------------------------------------ RotateSH: the run

MaxCalls == 2

MaxLength == 16

\* the lengths of the result buffers: below band 1, the three band limits,
\* and past the length of coeffsIn
Lengths == {2, 3, 8, 15, MaxLength}

\* mat.data of a Mat3, as field numbers
Mat3(data) ==
    <<FInt(data[1]), FInt(data[2]), FInt(data[3]), FInt(data[4]),
      FInt(data[5]), FInt(data[6]), FInt(data[7]), FInt(data[8]),
      FInt(data[9])>>

\* cos and sin of 45 degrees
HalfRoot2 == FBasis(Q(1, 2), 1)

MatIdentity == Mat3(<<1, 0, 0, 0, 1, 0, 0, 0, 1>>)

MatEighthTurn ==
    <<HalfRoot2, HalfRoot2, FInt(0), FNeg(HalfRoot2), HalfRoot2, FInt(0),
      FInt(0), FInt(0), FInt(1)>>

Matrices == {MatIdentity, MatEighthTurn}

\* the matrices of the run, each with the instance the constructor builds
\* from it
Instances == {[mat |-> mat, inst |-> RotateSH(mat)] : mat \in Matrices}

Constructed(mat) == (CHOOSE c \in Instances : c.mat = mat).inst

\* entry i of a buffer: float32 numbers, numbers between two float32
\* numbers (a number[] can hold them, a Float32Array cannot), or float32
\* numbers with one NaN in band 1
Entry(pattern, i) ==
    IF pattern = "fine" THEN V(FRat(Q(4 * Grain * i + 1, 4 * Grain)))
    ELSE IF pattern = "zero" THEN VInt(0)
    ELSE IF pattern = "nan" /\ i = 2 THEN VNaN
    ELSE VInt(i)

Patterns(kind) == IF kind = "f32" THEN {"grid"} ELSE {"fine", "nan"}

RECURSIVE Entries(_, _)
Entries(pattern, length) ==
    IF length = 0 THEN <<>>
    ELSE Append(Entries(pattern, length - 1), Entry(pattern, length))

BufferOf(kind, pattern, length) ==
    [kind |-> kind, data |-> Entries(pattern, length)]

Buffers ==
    {BufferOf(kind, pattern, length) :
        kind \in {"f32", "num"}, pattern \in {"grid", "fine", "nan"},
        length \in Lengths}

ResultBuffers == {b \in Buffers : \E p \in Patterns(b.kind) :
                    b = BufferOf(b.kind, p, Len(b.data))}

\* the src of a call: omitted, result itself, a view over the memory of
\* result (typed arrays only), or a copy of result
SrcModes(kind) ==
    {"omitted", "same", "copy"} \cup (IF kind = "f32" THEN {"view"} ELSE {})

SrcOf(mode, result) == [mode |-> mode, data |-> result.data]

NoCall == [mode |-> "none"]

RotInit ==
    /\ rot = [pc |-> "module", mat |-> <<>>, inst |-> <<>>,
              coeffsIn |-> Entries("zero", 15),
              calls |-> 0, last |-> NoCall]
    /\ st = enter(<<>>, <<>>)
    /\ input0 = st
    /\ prev = st
    /\ log = <<>>
    /\ cli = CliIdle
    /\ run = RunIdle
    /\ ply = PlyIdle
    /\ dev = DevIdle

\* new RotateSH(mat)
Construct(mat) ==
    /\ rot.calls < MaxCalls
    /\ rot.last # NoCall \/ rot.pc = "module"
    /\ rot' = [rot EXCEPT !.pc = "built", !.mat = mat,
                          !.inst = Constructed(mat), !.last = NoCall]
    /\ UNCHANGED <<pipeVars, cli, run, ply, dev>>

Called(result, src, out) ==
    [mode |-> src.mode, kind |-> result.kind, before |-> result.data,
     src |-> src.data, threw |-> out.threw, after |-> out.data]

\* the state when the call returns or throws
AfterCall(r, result, src, out) ==
    [r EXCEPT !.calls = @ + 1, !.coeffsIn = out.coeffsIn,
              !.last = Called(result, src, out)]

\* rotateSH.apply(result, src) on the instance
Apply(result, mode) ==
    /\ rot.pc = "built"
    /\ rot.calls < MaxCalls
    /\ rot' \in {AfterCall(rot, result, SrcOf(mode, result), out) :
                   out \in {apply(rot.inst, rot.coeffsIn, result,
                                  SrcOf(mode, result))}}
    /\ UNCHANGED <<pipeVars, cli, run, ply, dev>>

RotNext ==
    \/ \E mat \in Matrices : Construct(mat)
    \/ \E result \in ResultBuffers : \E mode \in SrcModes(result.kind) :
          Apply(result, mode)

SpecRot == RotInit /\ [][RotNext]_vars

\* ------------------------------------------------ claims about RotateSH

\* the state right after a call of apply
AfterApply == rot.pc = "built" /\ rot.last # NoCall

InPlace == rot.last.mode \in {"omitted", "same"}

\* the band of the entry at index i - 1, and the least length that has it
BandOfEntry(i) == IF i <= 3 THEN 1 ELSE IF i <= 8 THEN 2 ELSE 3

BandLength(band) == IF band = 1 THEN 3 ELSE IF band = 2 THEN 8 ELSE 15

\* the input with every entry outside the band made NaN: what is computed
\* from it and is a number was computed from the band alone
OnlyBand(input, band) ==
    [i \in 1..Len(input) |->
        IF i <= 15 /\ BandOfEntry(i) = band THEN input[i] ELSE VNaN]

\* entry i - 1 of the input rotated by the matrix of its band
RotatedEntry(i, input) ==
    Assigned(rot.inst, i, OnlyBand(input, BandOfEntry(i)))

\* the input of the last call: src, or result itself when the call is in
\* place, which reads its entries at float32 precision
InputRead ==
    [i \in 1..Len(rot.last.src) |->
        IF InPlace THEN Fround(rot.last.src[i]) ELSE rot.last.src[i]]

\* the entry a call leaves at index i - 1 when it rotates the bands that
\* the length has and touches nothing else
BandsByLength(i) ==
    IF i <= 15 /\ Len(rot.last.before) >= BandLength(BandOfEntry(i))
    THEN Stored(rot.last.kind, RotatedEntry(i, InputRead))
    ELSE rot.last.before[i]

\* C14: apply on a vector of length L rotates band 1 iff L >= 3, band 2
\* iff L >= 8 and band 3 iff L >= 15, each from the input entries of the
\* same band alone, and leaves every other entry unchanged
C14_BandsByLength ==
    AfterApply =>
        \A i \in 1..Len(rot.last.before) :
            rot.last.after[i] = BandsByLength(i)

\* C15: an in-place call (src omitted or result itself) leaves exactly
\* the values that the call with a separate copy of the input as src
\* leaves, whatever calls came before
C15_InPlaceAsFromCopy ==
    AfterApply /\ InPlace =>
        /\ ~rot.last.threw
        /\ rot.last.after =
               ApplyFrom(rot.inst, rot.coeffsIn,
                         [kind |-> rot.last.kind, data |-> rot.last.before],
                         [mode |-> "copy", data |-> rot.last.before]).data

IdentityMatrix(m, n) ==
    /\ Len(m) = n
    /\ \A i \in 1..n :
          /\ Len(m[i]) = n
          /\ \A j \in 1..n : m[i][j] = FInt(IF i = j THEN 1 ELSE 0)

IdentityMatrices ==
    /\ IdentityMatrix(rot.inst.sh1, 3)
    /\ IdentityMatrix(rot.inst.sh2, 5)
    /\ IdentityMatrix(rot.inst.sh3, 7)

FromIdentity == rot.pc = "built" /\ rot.mat = MatIdentity

FullBands == Len(rot.last.before) \in {3, 8, 15}

\* C16 as stated: the instance built from the identity matrix has three
\* identity matrices, and a call of it leaves every vector of length 3, 8
\* or 15 unchanged
C16_Original ==
    FromIdentity =>
        /\ IdentityMatrices
        /\ rot.last # NoCall /\ FullBands => rot.last.after = rot.last.before

\* some entry of the band of entry i - 1 of the input is NaN
NaNInBand(input, i) ==
    \E j \in 1..Len(input) :
        BandOfEntry(j) = BandOfEntry(i) /\ input[j].k = "nan"

\* what the identity leaves at index i - 1: NaN all over a band that holds
\* a NaN, else the entry, at float32 precision when the call is in place
IdentityEntry(i) ==
    IF NaNInBand(rot.last.before, i) THEN VNaN
    ELSE IF InPlace THEN Fround(rot.last.before[i])
    ELSE rot.last.before[i]

\* C16: the instance built from the identity matrix has three identity
\* matrices; a call of it on a vector of length 3, 8 or 15 leaves every
\* entry unchanged, but for two cases: a NaN makes every entry of its band
\* NaN, and an in-place call leaves the float32 value of each entry
C16_IdentityUnchanged ==
    FromIdentity =>
        /\ IdentityMatrices
        /\ rot.last # NoCall /\ FullBands =>
               /\ ~rot.last.threw
               /\ \A i \in 1..Len(rot.last.before) :
                      rot.last.after[i] = IdentityEntry(i)

\* the identity called in place on 15 numbers that are not float32
\* numbers, after an earlier call: every entry is left at its float32 value
C16_Witness ==
    /\ FromIdentity /\ AfterApply /\ InPlace
    /\ rot.calls = 2
    /\ rot.last.kind = "num"
    /\ Len(rot.last.before) = 15
    /\ \A i \in 1..15 :
          /\ rot.last.before[i].k = "num"
          /\ rot.last.after[i] = Fround(rot.last.before[i])
          /\ rot.last.after[i] # rot.last.before[i]

\* ---------------------------------------------------- filterBox, two calls

BoxRowInside == ("x" :> Num(6)) @@ ("y" :> Num(6)) @@ ("z" :> Num(6))

BoxRowCorner == ("x" :> Num(0)) @@ ("y" :> Num(Unit)) @@ ("z" :> Num(0))

BoxRowBeside == ("x" :> Num(6)) @@ ("y" :> Num(6)) @@ ("z" :> Num(2 * Unit))

BoxRowBelow == ("x" :> Num(-6)) @@ ("y" :> Num(6)) @@ ("z" :> Num(6))

BoxRowFar == ("x" :> PosInf) @@ ("y" :> NegInf) @@ ("z" :> Num(6))

BoxRowNaN == ("x" :> Num(6)) @@ ("y" :> NaN) @@ ("z" :> Num(6))

BoxRows ==
    {BoxRowInside, BoxRowCorner, BoxRowBeside, BoxRowBelow, BoxRowFar,
     BoxRowNaN}

\* the bounds of one axis: none, [0, 1], [1/2, +Infinity), (-Infinity, 0]
BoxIntervals ==
    {<<NegInf, PosInf>>, <<Num(0), Num(Unit)>>, <<Num(6), PosInf>>,
     <<NegInf, Num(0)>>}

Boxes ==
    {[min |-> <<ix[1], iy[1], iz[1]>>, max |-> <<ix[2], iy[2], iz[2]>>] :
        ix \in BoxIntervals, iy \in BoxIntervals, iz \in BoxIntervals}

BoxInit ==
    /\ \E rows \in RowSeqs(BoxRows, MaxRows) :
          LET t == MakeTable(TableNames(0, FALSE), rows)
          IN  st = enter(t.bufs, t.cols)
    /\ input0 = st
    /\ prev = st
    /\ log = <<>>
    /\ cli = CliIdle
    /\ run = RunIdle
    /\ Idle

\* the first action of processActions: a filterBox
FilterBoxOnce ==
    /\ log = <<>>
    /\ \E box \in Boxes :
          Do([kind |-> "filterBox", min |-> box.min, max |-> box.max])

\* the second action: the same filterBox
FilterBoxAgain ==
    /\ Len(log) = 1
    /\ Do(log[1])

BoxNext == FilterBoxOnce \/ FilterBoxAgain

SpecBox == BoxInit /\ [][BoxNext]_vars

\* a <= b on the numbers and the two infinities
AtMost(a, b) ==
    \/ a = NegInf
    \/ b = PosInf
    \/ a.k = "num" /\ b.k = "num" /\ a.v <= b.v

\* lo <= v <= hi; an infinite bound leaves its side open
Between3(lo, v, hi) == v.k # "nan" /\ AtMost(lo, v) /\ AtMost(v, hi)

\* the row, its values in the column order of names, lies in the closed box
InBox(names, row, min, max) ==
    \A c \in 1..3 :
        \E i \in 1..Len(names) :
            /\ names[i] = <<"x", "y", "z">>[c]
            /\ Between3(min[c], row[i], max[c])

\* C17: filterBox(min, max) keeps exactly the rows inside the closed box,
\* in their order and with the same columns; an infinite bound is no
\* constraint on its side; when no row is inside, the table has no rows and
\* the same columns
C17_ClosedBox ==
    Stepped("filterBox") =>
        /\ columnNames(st.result) = columnNames(prev.result)
        /\ RowsOf(st)
              = SelectSeq(RowsOf(prev),
                    LAMBDA row : InBox(columnNames(prev.result), row,
                                       Last.min, Last.max))

\* C17 witness: of two rows, the one on a corner of a box with an open side
\* is kept and the other is dropped
C17_Witness ==
    /\ Len(log) = 1
    /\ Last.kind = "filterBox"
    /\ numRows(prev.bufs, prev.result) = 2
    /\ numRows(st.bufs, st.result) = 1
    /\ ResultData(st, "x")[1] = Last.min[1]
    /\ ResultData(st, "y")[1] = Last.max[2]
    /\ Last.min[3] = NegInf
    /\ ResultData(st, "z")[1] = Last.max[3]

BoxTwice == Len(log) = 2 /\ log[1].kind = "filterBox" /\ log[2] = log[1]

\* C18: filterBox(min, max) applied twice leaves the rows, their order and
\* the columns that applying it once leaves
C18_BoxIdempotent ==
    BoxTwice =>
        /\ columnNames(st.result) = columnNames(prev.result)
        /\ RowsOf(st) = RowsOf(prev)

\* C18 witness: the first call dropped one row of two, the second ran on
\* the row left
C18_Witness ==
    /\ BoxTwice
    /\ numRows(input0.bufs, input0.result) = 2
    /\ numRows(prev.bufs, prev.result) = 1
    /\ numRows(st.bufs, st.result) = 1

\* ------------------------------------------------ filterVisibility, one call

\* rows of scores 2, 24, 8, 8 and 0 twelfths
VisRowDim == ("opacity" :> Num(-2))

VisRowBig == ("opacity" :> Num(0)) @@ ("scale_0" :> Num(1)) @@ ("scale_1" :> Num(1))

VisRowMid == ("opacity" :> Num(1))

VisRowTie == ("opacity" :> Num(1)) @@ ("scale_0" :> Num(1)) @@ ("scale_1" :> Num(-1))

VisRowNone == ("opacity" :> PosInf) @@ ("scale_2" :> NegInf)

VisRows == {VisRowDim, VisRowBig, VisRowMid, VisRowTie, VisRowNone}

\* the counts: from 0 to more than the table has rows
VisCounts == 0..(MaxRows + 1)

\* the percentages, some out of range
VisPercents == {-25, 0, 25, 50, 75, 100, 150}

\* tables of one band, whose f_rest columns tell the rows apart
VisInit ==
    /\ \E rows \in RowSeqs(VisRows, MaxRows) :
          LET t == MakeTable(TableNames(1, FALSE), rows)
          IN  st = enter(t.bufs, t.cols)
    /\ input0 = st
    /\ prev = st
    /\ log = <<>>
    /\ cli = CliIdle
    /\ run = RunIdle
    /\ Idle

\* processDataTable(dataTable, [filterVisibility with a count])
VisibilityByCount ==
    /\ log = <<>>
    /\ \E k \in VisCounts :
          Do([kind |-> "filterVisibility", count |-> Num(k * Unit),
              percent |-> Null])

\* processDataTable(dataTable, [filterVisibility with a percentage])
VisibilityByPercent ==
    /\ log = <<>>
    /\ \E p \in VisPercents :
          Do([kind |-> "filterVisibility", count |-> Null,
              percent |-> Num(p * Unit)])

VisNext == VisibilityByCount \/ VisibilityByPercent

SpecVis == VisInit /\ [][VisNext]_vars

CountMode == Stepped("filterVisibility") /\ Last.count # Null

PercentMode == Stepped("filterVisibility") /\ Last.count = Null

\* the percentage, in twelfths, clamped to [0, 100]
ClampedPercent(v) ==
    IF v < 0 THEN 0 ELSE IF v > 100 * Unit THEN 100 * Unit ELSE v

\* n * p / 100 rounded to the nearest integer, halves upwards, for p twelfths
RoundedShare(n, p) == (2 * n * p + 100 * Unit) \div (2 * 100 * Unit)

\* the number of rows the claim gives the result of a table of n rows
RowsToKeep(n) ==
    IF Last.count # Null
    THEN (IF Last.count.v \div Unit < n THEN Last.count.v \div Unit ELSE n)
    ELSE RoundedShare(n, ClampedPercent(Last.percent.v))

\* C19: filterVisibility does not fail on a target out of range; it leaves
\* min(count, numRows) rows in count mode and round(numRows * percent / 100)
\* rows, the percentage clamped to [0, 100], in percent mode; the row count
\* lies in 0..numRows and the columns are unchanged
C19_RowsKept ==
    Stepped("filterVisibility") =>
        /\ ~st.threw
        /\ columnNames(st.result) = columnNames(prev.result)
        /\ numRows(st.bufs, st.result)
              = RowsToKeep(numRows(prev.bufs, prev.result))
        /\ numRows(st.bufs, st.result) \in 0..numRows(prev.bufs, prev.result)

\* C19 witness: a percentage above 100 on two rows keeps both
C19_Witness ==
    /\ PercentMode
    /\ Last.percent.v > 100 * Unit
    /\ numRows(prev.bufs, prev.result) = 2
    /\ numRows(st.bufs, st.result) = 2

\* the score of row r of the table s.result
ScoreOfRow(s, r) == Score(getRow(s.bufs, s.result, r))

\* row q of the table before the call is among the rows of the result
KeptRow(q) ==
    \E r \in 1..numRows(st.bufs, st.result) : RowsOf(st)[r] = RowsOf(prev)[q]

\* C20: after filterVisibility(count = k) every kept row is a row of the
\* input, no row is kept twice, and no kept row has a lower score than a
\* discarded row
C20_TopScoresKept ==
    CountMode =>
        /\ \A r \in 1..numRows(st.bufs, st.result) :
              /\ \E q \in 1..numRows(prev.bufs, prev.result) :
                    RowsOf(st)[r] = RowsOf(prev)[q]
              /\ \A r2 \in 1..numRows(st.bufs, st.result) :
                    r2 # r => RowsOf(st)[r2] # RowsOf(st)[r]
        /\ \A r \in 1..numRows(st.bufs, st.result) :
              \A q \in 1..numRows(prev.bufs, prev.result) :
                  ~KeptRow(q) => ~Lt(ScoreOfRow(st, r), ScoreOfRow(prev, q))

\* C20 witness: count 1 on two rows keeps the second, whose score is the
\* higher one
C20_Witness ==
    /\ CountMode
    /\ Last.count = Num(Unit)
    /\ numRows(prev.bufs, prev.result) = 2
    /\ numRows(st.bufs, st.result) = 1
    /\ RowsOf(st)[1] = RowsOf(prev)[2]
    /\ Lt(ScoreOfRow(prev, 1), ScoreOfRow(prev, 2))

\* --------------------------------------------- claims about lod and summary

\* column i of prev.result is column i of st.result, name and data
KeepsColumn(i) ==
    /\ i <= Len(st.result)
    /\ st.result[i].name = prev.result[i].name
    /\ st.bufs[st.result[i].buf] = prev.bufs[prev.result[i].buf]

\* after lod(n): a lod column of the row count, every other column and the
\* row count as before, the column new and last when there was none
LodFrame ==
    /\ hasColumn(st.result, "lod")
    /\ Len(ResultData(st, "lod")) = numRows(prev.bufs, prev.result)
    /\ numRows(st.bufs, st.result) = numRows(prev.bufs, prev.result)
    /\ \A i \in 1..Len(prev.result) :
          prev.result[i].name # "lod" => KeepsColumn(i)
    /\ IF hasColumn(prev.result, "lod")
       THEN columnNames(st.result) = columnNames(prev.result)
       ELSE columnNames(st.result) = Append(columnNames(prev.result), "lod")

\* every row of the lod column holds v
LodIs(v) ==
    \A r \in 1..Len(ResultData(st, "lod")) : ResultData(st, "lod")[r] = v

\* C21: after lod(n), at any position of the sequence, the lod column holds
\* n on every row; it is created with the row count when absent, overwritten
\* when present, and the row count and the other columns are unchanged.
C21_LodColumn == Stepped("lod") => LodFrame /\ LodIs(Last.value)

\* the table handed on is the table received: the same object, with the
\* same columns over the same buffers, holding the same values
SameTable ==
    /\ st.result = prev.result
    /\ st.same = prev.same
    /\ st.dataTable = prev.dataTable
    /\ st.bufs = prev.bufs
    /\ RowsOf(st) = RowsOf(prev)

\* C22: summary and param leave the table unchanged (the same table, with
\* the same columns, row order and values, goes to the next action);
\* summary emits one report through logger.output and nothing else, param
\* does nothing.
C22_SummaryParamInert ==
    /\ Stepped("summary") => SameTable /\ st.reports = prev.reports + 1
    /\ Stepped("param") => SameTable /\ st = prev

\* C22 witness: a summary of a table of two different rows, after a param
C22_Witness ==
    /\ Len(log) = 2
    /\ log[1].kind = "param"
    /\ log[2].kind = "summary"
    /\ numRows(st.bufs, st.result) = 2
    /\ RowsOf(st)[1] # RowsOf(st)[2]
    /\ st.reports = 1
    /\ RowsOf(st) = RowsOf(input0)

\* ------------------------------------------------ the pipeline, every action

\* a row of NaN colour, which filterNaN drops
RowHazy == ("f_dc_0" :> NaN) @@ ("x" :> Num(12 * Unit)) @@ RowBase

\* the rows of the tables, in a cycle: RowAlt lies far from the origin and
\* comes first, RowBase near it
FrameRow(i) == <<RowAlt, RowBase, RowHazy>>[((i - 1) % 3) + 1]

\* tables of one SH band, of 1 to MaxRows rows, from the first or the second
\* row of the cycle on
FrameTables ==
    {[r \in 1..n |-> FrameRow(first + r)] : n \in 1..MaxRows, first \in 0..1}

FrameBox == [min |-> <<Num(0), Num(0), NegInf>>,
             max |-> <<Num(10 * Unit), PosInf, PosInf>>]

FrameSphere == [center |-> <<Num(8 * Unit), Num(0), Num(-8 * Unit)>>,
                radius |-> Num(4 * Unit)]

FrameInit ==
    /\ \E rows \in FrameTables :
          LET t == MakeTable(TableNames(1, FALSE), rows)
          IN  st = enter(t.bufs, t.cols)
    /\ input0 = st
    /\ prev = st
    /\ log = <<>>
    /\ cli = CliIdle
    /\ run = RunIdle
    /\ Idle

Rotate ==
    /\ Running
    /\ Do([kind |-> "rotate", value |-> HalfTurn])

FilterBox ==
    /\ Running
    /\ Do([kind |-> "filterBox", min |-> FrameBox.min, max |-> FrameBox.max])

FilterSphere ==
    /\ Running
    /\ Do([kind |-> "filterSphere", center |-> FrameSphere.center,
           radius |-> FrameSphere.radius])

MortonOrder ==
    /\ Running
    /\ Do([kind |-> "mortonOrder"])

FilterVisibility ==
    /\ Running
    /\ Do([kind |-> "filterVisibility", count |-> Num(Unit),
           percent |-> Null])

FrameNext ==
    \/ Translate
    \/ Rotate
    \/ Scale
    \/ FilterNaN
    \/ FilterByValue
    \/ FilterBands
    \/ FilterBox
    \/ FilterSphere
    \/ Param
    \/ Lod
    \/ Summary
    \/ MortonOrder
    \/ FilterVisibility

SpecFrame == FrameInit /\ [][FrameNext]_vars

\* ----------------------------------------- claims about the table handed on

AttributeKinds == {"translate", "rotate", "scale"}

RowRemovingKinds ==
    {"filterNaN", "filterByValue", "filterBox", "filterSphere",
     "filterVisibility"}

\* the last action handed on the table object it received, or another one
SameObject == st.obj = prev.obj

NewObject == st.obj # prev.obj

\* the buffers of the table received hold what they held, and when that
\* table is the one passed to processDataTable its columns are its columns
ReceivedUnmodified ==
    /\ \A id \in DOMAIN prev.bufs \cap DOMAIN st.bufs :
          st.bufs[id] = prev.bufs[id]
    /\ prev.same => /\ st.dataTable = prev.dataTable
                    /\ \A i \in 1..Len(prev.result) :
                          prev.result[i].buf \in DOMAIN st.bufs

\* the last action was a filterBands that changed the column names
Truncated ==
    /\ Stepped("filterBands")
    /\ columnNames(st.result) # columnNames(prev.result)

\* the rows after the last action are those before it in Morton order
Reordered ==
    RowsOf(st) = [r \in 1..numRows(prev.bufs, prev.result) |->
                    RowsOf(prev)[sortMortonOrder(prev)[r]]]

\* C23 as stated: translate, rotate and scale hand on the table object they
\* received; the row filters, mortonOrder and a truncating filterBands hand
\* on a newly allocated table, and the row filters and mortonOrder leave the
\* table they received unmodified.
C23_Original ==
    Len(log) >= 1 =>
        /\ Last.kind \in AttributeKinds => SameObject
        /\ Last.kind \in RowRemovingKinds \cup {"mortonOrder"} =>
              NewObject /\ ReceivedUnmodified
        /\ Truncated => NewObject

\* C23: translate, rotate and scale hand on the table object they received,
\* and so does mortonOrder, which reorders its rows in place; filterNaN,
\* filterByValue, filterBox, filterSphere and filterVisibility hand on a
\* newly allocated table and leave the table they received unmodified, and
\* so does a filterBands that changes the columns.
C23_TableHandedOn ==
    Len(log) >= 1 =>
        /\ Last.kind \in AttributeKinds => SameObject
        /\ Last.kind = "mortonOrder" => SameObject /\ Reordered
        /\ Last.kind \in RowRemovingKinds => NewObject /\ ReceivedUnmodified
        /\ Truncated => NewObject /\ ReceivedUnmodified

\* C23 witness: filterBands hands on a new table without SH columns, and
\* mortonOrder then hands on that table with its two rows exchanged
C23_Witness ==
    /\ Len(log) = 2
    /\ log[1].kind = "filterBands"
    /\ log[2].kind = "mortonOrder"
    /\ prev.obj = 1
    /\ st.obj = 1
    /\ columnNames(prev.result) # columnNames(input0.result)
    /\ numRows(st.bufs, st.result) = 2
    /\ RowsOf(st) = <<RowsOf(prev)[2], RowsOf(prev)[1]>>
    /\ RowsOf(st)[1] # RowsOf(st)[2]

\* ---- the checks of the output file, call by call

\* getOutputFormat(outputFilename, options), as far as main asks: html or not
getOutputFormat(filename) == IF filename = "out.html" THEN "html" ELSE "ply"

\* basename(outputFilename, '.html') followed by .sog
SogOf(filename) == IF filename = "out.html" THEN "out.sog" ELSE "index.sog"

\* the additional files of an unbundled HTML output, in the order of the loop
filesToCheckAll(r) ==
    IF getOutputFormat(outputArg(r).filename) = "html" /\ r.options.unbundled
    THEN <<"index.css", "index.js", SogOf(outputArg(r).filename)>>
    ELSE <<>>

filesToCheckNone(r) == <<>>

filesToCheck(r) == filesToCheckAll(r)

\* every file fileExists is asked about when none of them exists
OutputChecks(r) == <<outputArg(r).filename>> \o filesToCheck(r)

\* one await fileExists(file): lstat fails on a path it cannot reach, the
\* file is there (error, exit(1)), or it is not and the next file follows
FileExists(r, file, fails) ==
    LET asked == [r EXCEPT !.checked = Append(@, file)] IN
    IF fails THEN [asked EXCEPT !.pc = "threw"]
    ELSE IF file \in r.fs
         THEN Caught(asked, "File already exists. Use -w option to overwrite.")
    ELSE IF Len(asked.checked) < Len(OutputChecks(r)) THEN asked
    ELSE StartReads(asked)

OutNames == {"out.ply", "out.html", "null", "NULL"}

OutFiles ==
    {<<[filename |-> "in.ply", processActions |-> a],
       [filename |-> n, processActions |-> b]>> :
        a \in MainActionLists, b \in MainActionLists, n \in OutNames}

OutOptions ==
    {[overwrite |-> o, unbundled |-> u, help |-> FALSE, version |-> FALSE,
      listGpus |-> FALSE] : o \in BOOLEAN, u \in BOOLEAN}

\* the files in the output directory before the run
OutDirs ==
    {{}, {"out.ply"}, {"out.html"}, {"index.css"}, {"index.js"}, {"out.sog"},
     {"out.html", "index.js"}, {"null"}}

\* what readFile resolves with: a table with a row filterNaN removes and a
\* row it keeps, or a table it keeps whole
OutTables ==
    { <<MakeTable(TableNames(0, FALSE), <<RowNaN, RowAlt>>)>>,
      <<MakeTable(TableNames(0, FALSE), <<RowBase>>)>> }

OutInit ==
    /\ \E files \in OutFiles, options \in OutOptions, fs \in OutDirs :
          run = [pc |-> "start", files |-> files, options |-> options,
                 inputs |-> <<>>, rejection |-> "", errors |-> <<>>,
                 writes |-> 0, written |-> <<>>,
                 done |-> FALSE, exitCode |-> -1, loaded |-> -1,
                 fs |-> fs, checked |-> <<>>, mkdirs |-> 0]
    /\ st = enter(<<>>, <<>>)
    /\ input0 = enter(<<>>, <<>>)
    /\ prev = enter(<<>>, <<>>)
    /\ log = <<>>
    /\ cli = CliIdle
    /\ Idle

\* await mkdir(dirname(outputFilename), { recursive: true }) with -w
Mkdir ==
    /\ run.pc = "checking"
    /\ run.options.overwrite
    /\ \E ok \in BOOLEAN :
          run' = IF ok THEN StartReads([run EXCEPT !.mkdirs = @ + 1])
                 ELSE [run EXCEPT !.mkdirs = @ + 1, !.pc = "threw"]
    /\ UNCHANGED <<pipeVars, cli, idleVars>>

\* the next await fileExists(...) without -w
CheckFile ==
    /\ run.pc = "checking"
    /\ ~run.options.overwrite
    /\ \E fails \in BOOLEAN :
          run' = FileExists(run, OutputChecks(run)[Len(run.checked) + 1],
                            fails)
    /\ UNCHANGED <<pipeVars, cli, idleVars>>

OutReadFile == ReadFileOf(OutTables)

OutNext ==
    \/ Begin
    \/ Mkdir
    \/ CheckFile
    \/ OutReadFile
    \/ Process
    \/ Catch
    \/ Finish
    \/ WriteFile

SpecOut == OutInit /\ [][OutNext]_vars

\* ---- the claims about the output file

\* the output, or with an unbundled HTML output one of the additional
\* files, is in the directory
OutputTaken ==
    \/ outputArg(run).filename \in run.fs
    \/ /\ getOutputFormat(outputArg(run).filename) = "html"
       /\ run.options.unbundled
       /\ {"index.css", "index.js", SogOf(outputArg(run).filename)}
             \cap run.fs # {}

NothingRead == run.inputs = <<>>

NothingWritten == run.writes = 0 /\ run.written = <<>> /\ run.mkdirs = 0

\* C24: without --overwrite, when the output file exists already (or, for
\* an unbundled HTML output, one of index.css, index.js and <base>.sog),
\* the run never starts a read and never writes, and when it exits it has
\* logged the one error and its status is 1; with an output named null in
\* any case, fileExists and mkdir are never called, writeFile is never
\* invoked, and a run that is done has applied the actions of every input
\* and of the output.
C24_OutputCheck ==
    /\ ~isNullOutput(run) /\ ~run.options.overwrite /\ OutputTaken =>
          /\ NothingRead
          /\ NothingWritten
          /\ run.pc \in {"start", "checking", "threw", "exited"}
          /\ run.pc = "exited" =>
                /\ run.exitCode = 1
                /\ Len(run.errors) = 1
                /\ ~run.done
    /\ isNullOutput(run) =>
          /\ run.checked = <<>>
          /\ NothingWritten
          /\ run.pc \in {"start", "reading", "exited"}
          /\ run.done =>
                /\ AllFulfilled
                /\ \A i \in 1..Len(run.inputs) : ReadValidProcessed(i)
                /\ PrimaryTable.ok
                /\ run.loaded = Rows(PrimaryTable.value)

\* an unbundled HTML output that is free while index.js is not: the run has
\* asked about three files and exited with the error
C24_Witness ==
    /\ outputArg(run).filename = "out.html"
    /\ run.fs = {"index.js"}
    /\ run.checked = <<"out.html", "index.css", "index.js">>
    /\ run.pc = "exited"
    /\ run.exitCode = 1

\* a run with the output NULL that is done after filterNaN, as an action of
\* the output, removed a row
C24_WitnessNull ==
    /\ outputArg(run).filename = "NULL"
    /\ run.done
    /\ run.loaded = 1
    /\ Rows(run.inputs[1].tables[1]) = 2

\* ------------------------------------- compressed PLY: encoding a table
\* The encoder of the packed format, from its description: per chunk the
\* minimum and maximum of each position and scale column (and of each
\* colour when the chunk carries colour bounds), every value quantized as
\* round(clamp((v - min) / (max - min), 0, 1) * (2^bits - 1)), the quaternion
\* without its component of largest magnitude.

\* a <= b of two finite rationals
QLe(a, b) == QSub(a, b).v <= 0

\* a / b of finite rationals, b > 0
QDiv(a, b) == QMul(a, Q(b.d, b.v))

\* Math.round(x * t) of a finite rational x >= 0 and a natural t
RoundTimes(x, t) == (2 * x.v * t + x.d) \div (2 * x.d)

\* clamp(x, 0, 1)
Clamp01(x) == IF x.v < 0 THEN QInt(0) ELSE IF x.v > x.d THEN QInt(1) ELSE x

\* the rows (from 1) of chunk ci (from 0) of a table of n rows
ChunkRows(n, ci) ==
    (ci * CHUNK_SIZE + 1)..(IF n < (ci + 1) * CHUNK_SIZE THEN n
                            ELSE (ci + 1) * CHUNK_SIZE)

ValuesIn(data, ci) == {data[r] : r \in ChunkRows(Len(data), ci)}

Finite(S) == \A v \in S : v.k = "num"

ChunkMin(S) == CHOOSE v \in S : \A w \in S : QLe(v, w)

ChunkMax(S) == CHOOSE v \in S : \A w \in S : QLe(w, v)

\* the bounds of the values S of a chunk
BoundsOf(S) ==
    [min |-> ChunkMin(S), max |-> ChunkMax(S), finite |-> Finite(S)]

\* the code of v between the bounds b of its chunk: 0 where the quotient is
\* not a number (max = min, or a value that is not finite)
quantize(v, b, bits) ==
    IF ~b.finite \/ b.min = b.max THEN 0
    ELSE RoundTimes(Clamp01(QDiv(QSub(v, b.min), QSub(b.max, b.min))),
                    Pow2(bits) - 1)

\* the code of a value that is quantized between 0 and 1
quantizeUnit(v, bits) ==
    IF v.k # "num" THEN 0 ELSE RoundTimes(Clamp01(v), Pow2(bits) - 1)

pack111011(x, y, z) ==
    U32(x * Pow2(5) + (y * Pow2(11) + z) \div Half, (y * Pow2(11) + z) % Half)

pack8888(x, y, z, w) == U32(x * Pow2(8) + y, z * Pow2(8) + w)

packRot(which, a, b, c) ==
    U32(which * Pow2(14) + (a * Pow2(20) + b * Pow2(10) + c) \div Half,
        (a * Pow2(20) + b * Pow2(10) + c) % Half)

\* the square of a rotation component
MagSq(c) == IF c.k = "root2" THEN Squared(c) ELSE c.q

IsNegative(c) == c.k = "root2" /\ c.q.v < 0

\* the component of largest magnitude, the first of them when several are
Largest(q) ==
    CHOOSE i \in 1..4 :
        /\ \A j \in 1..4 : QLe(MagSq(q[j]), MagSq(q[i]))
        /\ \A j \in 1..(i - 1) : ~QLe(MagSq(q[i]), MagSq(q[j]))

\* 2 * 2046^2 * (c / sqrt(2))^2 for a component c that is a square root
Scaled(c) == c.q.v * ((4 * (Pow2(10) - 1) * (Pow2(10) - 1)) \div c.q.d)

\* round((0.5 + c / sqrt(2)) * 1023), and the same of -c, for a component
\* that is a square root
RootCode(c, negated) ==
    IF negated
    THEN Cardinality({k \in 1..Pow2(9) :
                         Scaled(c) <= 2 * (Pow2(10) - 2 * k) * (Pow2(10) - 2 * k)})
    ELSE Pow2(9) + Cardinality({k \in (Pow2(9) + 1)..(Pow2(10) - 1) :
                         2 * (2 * k - Pow2(10)) * (2 * k - Pow2(10)) <= Scaled(c)})

\* round(clamp(c / sqrt(2) + 0.5, 0, 1) * 1023) of c, or of -c
RotCode(c, negated) ==
    IF c.k = "root2"
    THEN quantizeUnit(QAdd(IF negated THEN QNeg(c.q) ELSE c.q, Q(1, 2)), 10)
    ELSE RootCode(c, negated)

\* the three components other than the one at i, in order
Others(q, i) == SelectSeq(<<1, 2, 3, 4>>, LAMBDA j : j # i)

encodeRotAt(q, i) ==
    packRot(i - 1, RotCode(q[Others(q, i)[1]], IsNegative(q[i])),
            RotCode(q[Others(q, i)[2]], IsNegative(q[i])),
            RotCode(q[Others(q, i)[3]], IsNegative(q[i])))

encodeRot(q) == encodeRotAt(q, Largest(q))

\* 1 / (1 + exp(-opacity))
sigmoidOf(o) ==
    IF o.k = "neglog" THEN Q(o.q.d, o.q.d + o.q.v)
    ELSE IF o = PosInf THEN QInt(1)
    ELSE IF o = NegInf THEN QInt(0)
    ELSE NaN

\* f_dc * SH_C0 + 0.5
colorOfDc(v) == QAdd(v, Q(1, 2))

DataNamed(table, name) == getColumnByName(table, name).data

\* the columns quantized between the bounds of a chunk
BoundedNames(colors) ==
    {"x", "y", "z", "scale_0", "scale_1", "scale_2"}
        \cup (IF colors THEN {"f_dc_0", "f_dc_1", "f_dc_2"} ELSE {})

\* the bounds every chunk (from 0) has in each of these columns
ChunkBounds(table, colors) ==
    [name \in BoundedNames(colors) |->
        [ci \in 0..ChunkIndex(plyRows(table) - 1) |->
            BoundsOf(ValuesIn(DataNamed(table, name), ci))]]

\* the code of row r of a position, scale or bounded colour column
CodeOf(table, bounds, name, r, bits) ==
    quantize(DataNamed(table, name)[r], bounds[name][ChunkIndex(r - 1)], bits)

\* colours are bounded as f_dc: f_dc * SH_C0 + 0.5 is increasing in f_dc
ColorCode(table, bounds, name, r, colors) ==
    IF colors THEN CodeOf(table, bounds, name, r, 8)
    ELSE quantizeUnit(colorOfDc(DataNamed(table, name)[r]), 8)

\* the four packed words of row r
encodeRow(table, bounds, r, colors) ==
    [packed_position |-> pack111011(CodeOf(table, bounds, "x", r, 11),
                                    CodeOf(table, bounds, "y", r, 10),
                                    CodeOf(table, bounds, "z", r, 11)),
     packed_rotation |-> encodeRot(<<DataNamed(table, "rot_0")[r],
                                     DataNamed(table, "rot_1")[r],
                                     DataNamed(table, "rot_2")[r],
                                     DataNamed(table, "rot_3")[r]>>),
     packed_scale |-> pack111011(CodeOf(table, bounds, "scale_0", r, 11),
                                 CodeOf(table, bounds, "scale_1", r, 10),
                                 CodeOf(table, bounds, "scale_2", r, 11)),
     packed_color |-> pack8888(ColorCode(table, bounds, "f_dc_0", r, colors),
                               ColorCode(table, bounds, "f_dc_1", r, colors),
                               ColorCode(table, bounds, "f_dc_2", r, colors),
                               quantizeUnit(sigmoidOf(
                                   DataNamed(table, "opacity")[r]), 8))]

\* the column of the table each chunk property bounds
BoundColumns ==
    <<"x", "y", "z", "x", "y", "z",
      "scale_0", "scale_1", "scale_2", "scale_0", "scale_1", "scale_2",
      "f_dc_0", "f_dc_1", "f_dc_2", "f_dc_0", "f_dc_1", "f_dc_2">>

\* the bound the j-th chunk property holds, from the bounds b of a chunk
encodeBound(j, b) ==
    IF j > Len(requiredChunkProperties)
    THEN colorOfDc(IF IsMaxName(j) THEN b.max ELSE b.min)
    ELSE IF IsMaxName(j) THEN b.max ELSE b.min

encodeChunks(table, bounds, colors) ==
    [j \in 1..Len(ChunkNames(colors)) |->
        [name |-> ChunkNames(colors)[j], dataType |-> "float32",
         data |-> [c \in 1..CeilDiv(plyRows(table), CHUNK_SIZE) |->
                      encodeBound(j, bounds[BoundColumns[j]][c - 1])]]]

encodeVertex(words) ==
    [j \in 1..Len(vertexProperties) |->
        [name |-> vertexProperties[j], dataType |-> "uint32",
         data |-> [r \in 1..Len(words) |-> words[r][vertexProperties[j]]]]]

encodeRows(table, bounds, colors) ==
    [r \in 1..plyRows(table) |-> encodeRow(table, bounds, r, colors)]

EncodedWith(table, bounds, colors) ==
    [elements |->
        <<[name |-> "chunk",
           dataTable |-> encodeChunks(table, bounds, colors)],
          [name |-> "vertex",
           dataTable |-> The({encodeVertex(words) :
                                 words \in {encodeRows(table, bounds,
                                                       colors)}})]>>]

\* the packed file of the table
encode(table, colors) ==
    The({EncodedWith(table, bounds, colors) :
            bounds \in {ChunkBounds(table, colors)}})

\* ---- decode, encode, decode
\* SpecTrip decompresses a packed file, encodes the table again, with
\* colour bounds when the file had them, and decompresses the result.

\* two splats, every packed word once, and the counts of the packed files
TripCounts == {2, Len(PackedWords)}

TripFiles ==
    {PackedFile(k, n, colors, FALSE, variant) :
        k \in 1..Len(PackedWords), n \in TripCounts,
        colors \in BOOLEAN, variant \in {"finite", "flat"}}
    \cup {PackedFile(1, n, colors, FALSE, "finite") :
        n \in SplatCounts, colors \in BOOLEAN}

TripInit ==
    /\ \E f \in TripFiles :
          ply = [pc |-> "read", file |-> f, compressed |-> FALSE,
                 result |-> <<>>, reads |-> [chunk |-> {}, sh |-> {}],
                 encoded |-> <<>>, again |-> <<>>]
    /\ st = enter(<<>>, <<>>)
    /\ input0 = st
    /\ prev = st
    /\ log = <<>>
    /\ cli = CliIdle
    /\ run = RunIdle
    /\ rot = RotIdle
    /\ dev = DevIdle

\* the table is encoded
Encode ==
    /\ ply.pc = "decompressed"
    /\ ply' = [ply EXCEPT !.pc = "encoded",
                          !.encoded = encode(ply.result,
                                             hasChunkColors(ply.file))]
    /\ UNCHANGED <<pipeVars, cli, run, rot, dev>>

\* decompressPly of the file encoded
DecodeAgain ==
    /\ ply.pc = "encoded"
    /\ isCompressedPly(ply.encoded)
    /\ ply' = [ply EXCEPT !.pc = "again",
                          !.again = decompressPly(ply.encoded)]
    /\ UNCHANGED <<pipeVars, cli, run, rot, dev>>

TripNext == Detect \/ Decompress \/ Encode \/ DecodeAgain

SpecTrip == TripInit /\ [][TripNext]_vars

\* ---- the claims about decode, encode, decode

Encoded == ply.pc \in {"encoded", "again"}

\* the word of row r (from 1) of a packed column is the same in the file
\* encoded as in the file read
SameWord(name, r) == Packed(ply.encoded, name)[r] = Packed(ply.file, name)[r]

\* some splat of the chunk of row r holds the code 0, and some the largest
\* code, in field f of the packed column
Attained(name, unpack(_), f, r) ==
    \A t \in {QInt(0), QInt(1)} :
        \E i \in ChunkRows(numSplats(ply.file), ChunkIndex(r - 1)) :
            Letter(unpack(Packed(ply.file, name)[i]), f) = t

\* the bounds min and max of the chunk of row r are finite, min below max
Apart(min, max, r) ==
    /\ At(getChunk(ply.file, min), ChunkIndex(r - 1)).k = "num"
    /\ At(getChunk(ply.file, max), ChunkIndex(r - 1)).k = "num"
    /\ ~QLe(At(getChunk(ply.file, max), ChunkIndex(r - 1)),
            At(getChunk(ply.file, min), ChunkIndex(r - 1)))

PositionBounded(r) ==
    /\ \A f \in {"x", "y", "z"} : Attained("packed_position", unpack111011, f, r)
    /\ Apart("min_x", "max_x", r)
    /\ Apart("min_y", "max_y", r)
    /\ Apart("min_z", "max_z", r)

ScaleBounded(r) ==
    /\ \A f \in {"x", "y", "z"} : Attained("packed_scale", unpack111011, f, r)
    /\ Apart("min_scale_x", "max_scale_x", r)
    /\ Apart("min_scale_y", "max_scale_y", r)
    /\ Apart("min_scale_z", "max_scale_z", r)

ColorBounded(r) ==
    hasChunkColors(ply.file) =>
        /\ \A f \in {"x", "y", "z"} : Attained("packed_color", unpack8888, f, r)
        /\ Apart("min_r", "max_r", r)
        /\ Apart("min_g", "max_g", r)
        /\ Apart("min_b", "max_b", r)

\* the component the word leaves out is, as decoded, strictly the largest of
\* the four in magnitude
LargestLeftOut(value) ==
    \A j \in 1..4 :
        j # Shr(value, 30).lo + 1 =>
            ~QLe(MagSq(Letter(unpackRot(value),
                              <<"x", "y", "z", "w">>[Shr(value, 30).lo + 1])),
                 MagSq(Letter(unpackRot(value), <<"x", "y", "z", "w">>[j])))

RotationCanonical(r) ==
    LargestLeftOut(Packed(ply.file, "packed_rotation")[r])

\* row r of the table decoded from the file encoded is row r of the table
\* decoded from the file read
SameRow(r) ==
    \A c \in 1..Len(GSNames) : ply.again[c].data[r] = ply.result[c].data[r]

\* the statement without its conditions: every word of every splat is
\* reproduced
C25_Original ==
    Encoded =>
        \A r \in 1..numSplats(ply.file) :
            \A j \in 1..Len(vertexProperties) :
                SameWord(vertexProperties[j], r)

\* C25: decoding a packed file and encoding the table again reproduces the
\* position word, the scale word and the colour word of every splat whose
\* chunk has finite bounds min < max that are attained (in each field some
\* splat of the chunk holds the code 0 and some the largest code; a colour
\* word of a file without colour bounds is reproduced in any case), and the
\* rotation word of every splat whose left-out component is strictly the
\* largest of the decoded quaternion; a splat with all four words
\* reproduced in a chunk with attained bounds decodes again to the same row.
C25_RoundTrip ==
    /\ Encoded =>
          \A r \in 1..numSplats(ply.file) :
              /\ PositionBounded(r) => SameWord("packed_position", r)
              /\ ScaleBounded(r) => SameWord("packed_scale", r)
              /\ ColorBounded(r) => SameWord("packed_color", r)
              /\ RotationCanonical(r) => SameWord("packed_rotation", r)
    /\ ply.pc = "again" =>
          \A r \in 1..numSplats(ply.file) :
              /\ PositionBounded(r)
              /\ ScaleBounded(r)
              /\ ColorBounded(r)
              /\ RotationCanonical(r)
              => SameRow(r)

\* a file with colour bounds decoded, encoded and decoded again, with a
\* splat whose four words are reproduced and whose position word is not
\* all zeros or all ones
C25_Witness ==
    /\ ply.pc = "again"
    /\ hasChunkColors(ply.file)
    /\ \E r \in 1..numSplats(ply.file) :
          /\ PositionBounded(r)
          /\ ScaleBounded(r)
          /\ ColorBounded(r)
          /\ RotationCanonical(r)
          /\ \A j \in 1..Len(vertexProperties) :
                SameWord(vertexProperties[j], r)
          /\ Packed(ply.file, "packed_position")[r]
                \notin {U32(0, 0), U32(Half - 1, Half - 1)}
          /\ SameRow(r)

\* ---- the claims about the shape of the table

UniqueNames(t) == \A i, j \in 1..Len(t) : t[i].name = t[j].name => i = j

\* no two columns of the table have one name, and the buffer of every
\* column has numRows elements
WellFormed(bufs, t) ==
    /\ UniqueNames(t)
    /\ \A i \in 1..Len(t) : Len(bufs[t[i].buf]) = numRows(bufs, t)

\* C26: from a table with unique column names whose columns all have
\* numRows elements, after every sequence of actions of processDataTable
\* the current table has no duplicate column name and every column buffer
\* has numRows elements.
C26_WellFormed ==
    WellFormed(input0.bufs, input0.result) => WellFormed(st.bufs, st.result)

\* after lod and filterBox: a column more and a row less than at entry
C26_Witness ==
    /\ Len(log) = 2
    /\ log[1].kind = "lod"
    /\ log[2].kind = "filterBox"
    /\ WellFormed(input0.bufs, input0.result)
    /\ Len(st.result) = Len(input0.result) + 1
    /\ numRows(st.bufs, st.result) + 1 = numRows(input0.bufs, input0.result)

\* ---- the claims about the reads of decompressPly

\* the names of the columns of the sh element, in its order
ShNamesOf(p) ==
    IF FindElement(p, "sh") = 0 THEN <<>>
    ELSE columnNames(ElementTable(p, "sh"))

ShRows(p) ==
    IF FindElement(p, "sh") = 0 THEN 0 ELSE plyRows(ElementTable(p, "sh"))

\* C27: for a file isCompressedPly accepts, decompressPly reads the chunk
\* bounds at indices floor(i / 256) below the number of chunk rows only,
\* and the bytes of the sh columns at indices below the number of sh rows
\* only; the table it returns has the 14 columns x, y, z, f_dc_0..2,
\* opacity, rot_0..3, scale_0..2 and one column for every column of the sh
\* element, of the same name, each of as many rows as the vertex element.
C27_ReadsInBounds ==
    Decompressed =>
        /\ \A ci \in ply.reads.chunk :
              ci >= 0 /\ ci < plyRows(ElementTable(ply.file, "chunk"))
        /\ \A i \in ply.reads.sh : i >= 0 /\ i < ShRows(ply.file)
        /\ columnNames(ply.result) = GSNames \o ShNamesOf(ply.file)
        /\ \A c \in 1..Len(ply.result) :
              Len(ply.result[c].data) = numSplats(ply.file)

\* a file of more than one chunk with an sh element, decompressed
C27_Witness ==
    /\ Decompressed
    /\ numSplats(ply.file) > CHUNK_SIZE
    /\ Cardinality(ply.reads.chunk) > 1
    /\ ply.reads.sh # {}
    /\ Len(ply.result) > Len(GSNames)

\* ---- the reads of several inputs
\* SpecReads runs main past the checks with MaxInputs inputs, each with
\* actions of its own, and keeps the order in which the reads complete.

ReadsActionLists ==
    {<<>>, <<[kind |-> "filterNaN"]>>, <<[kind |-> "scale", value |-> Num(2 * Unit)]>>}

ReadsFiles ==
    {ins \o <<[filename |-> "out.ply", processActions |-> out]>> :
        ins \in [1..MaxInputs ->
                    {[filename |-> "in.ply", processActions |-> a] :
                        a \in ReadsActionLists}],
        out \in {<<>>, <<[kind |-> "filterNaN"]>>}}

\* what readFile resolves with: a table with a row filterNaN removes, and
\* two tables at once, the second one of the environment
ReadsTables ==
    { <<MakeTable(TableNames(0, FALSE), <<RowNaN, RowAlt>>)>>,
      <<MakeTable(TableNames(0, FALSE), <<RowBase>>),
        MakeTable(TableNames(0, TRUE), <<RowEnv>>)>> }

ReadsInit ==
    /\ \E files \in ReadsFiles :
          run = StartReads(
                 [pc |-> "start", files |-> files,
                  options |-> [overwrite |-> TRUE, help |-> FALSE,
                               version |-> FALSE, listGpus |-> FALSE],
                  inputs |-> <<>>, rejection |-> "", errors |-> <<>>,
                  writes |-> 0, written |-> <<>>,
                  done |-> FALSE, exitCode |-> -1, loaded |-> -1,
                  order |-> <<>>])
    /\ st = enter(<<>>, <<>>)
    /\ input0 = enter(<<>>, <<>>)
    /\ prev = enter(<<>>, <<>>)
    /\ log = <<>>
    /\ cli = CliIdle
    /\ Idle

ReadsReadFile == ReadFileOf(ReadsTables)

ReadsNext ==
    \/ ReadsReadFile
    \/ Process
    \/ Catch
    \/ Finish
    \/ WriteFile

SpecReads == ReadsInit /\ [][ReadsNext]_vars

\* ---- the claims about the reads

\* the tables of inputs 1 to n, in the order of the command line, and
\* within an input in the order of its reader
RECURSIVE InOrder(_)
InOrder(n) ==
    IF n = 0 THEN <<>> ELSE InOrder(n - 1) \o run.inputs[n].tables

\* the tables read by input i after the actions of input i, and of no other
OwnActions(i) ==
    run.inputs[i].tables
        = [k \in 1..Len(run.inputs[i].read) |->
              TableOf(processLoop(enter(run.inputs[i].read[k].bufs,
                                        run.inputs[i].read[k].cols),
                                  run.files[i].processActions))]

\* C28: in whatever order the reads complete, the tables of every input
\* that is fulfilled are the tables it read after its own actions, and the
\* tables written are the tables of the inputs combined in the order of the
\* command line (and of the reader within an input), after the actions of
\* the output.
C28_OrderIndependent ==
    /\ \A i \in 1..Len(run.inputs) :
          run.inputs[i].status = "fulfilled" => OwnActions(i)
    /\ run.writes = 1 =>
          /\ run.written.dataTable
                = CombineAndProcess(nonEnvDataTables(InOrder(Len(run.inputs))),
                                    outputArg(run).processActions).value
          /\ run.written.envDataTable
                = CombineAndProcess(envDataTables(InOrder(Len(run.inputs))),
                                    outputArg(run).processActions).value

\* the read of the second input completed first, the actions of the two
\* inputs differ, and the table written starts with the rows of the first
C28_Witness ==
    /\ run.writes = 1
    /\ run.order = <<2, 1>> \o [i \in 1..(Len(run.inputs) - 2) |-> i + 2]
    /\ run.files[1].processActions = <<[kind |-> "filterNaN"]>>
    /\ run.files[2].processActions # run.files[1].processActions
    /\ run.inputs[1].read # run.inputs[2].read
    /\ Rows(run.inputs[1].read[1]) = 2
    /\ Rows(run.inputs[1].tables[1]) = 1
    /\ Rows(run.written.dataTable) = 2
    /\ DataOf(run.written.dataTable, "x")[1]
          = DataOf(run.inputs[1].tables[1], "x")[1]
    /\ DataOf(run.written.dataTable, "x")[2]
          = DataOf(run.inputs[2].tables[1], "x")[1]
    /\ DataOf(run.written.dataTable, "x")[1]
          # DataOf(run.written.dataTable, "x")[2]

\* ---- the command line, from the tokens to the output
\* SpecLine parses a command line of up to MaxArgs tokens, keeps the
\* tokens, and runs main on the files parseArguments returns.

MaxArgs == 4

LineNames == {"in.ply"}

LineTokens ==
    { Opt("filter-nan", <<>>), Opt("scale", <<"0", ".", "5">>) }

LineInit ==
    /\ cli = [pc |-> "options", gpu |-> <<"-", "1">>, deviceIdx |-> 0,
              files |-> <<>>, error |-> "", tokens |-> 0, line |-> <<>>]
    /\ st = enter(<<>>, <<>>)
    /\ input0 = st
    /\ prev = st
    /\ log = <<>>
    /\ run = RunIdle
    /\ Idle

LinePositional == PositionalOf(LineNames, MaxArgs)

LineOption == OptionOf(LineTokens, MaxArgs)

\* const { files, options } = await parseArguments() in main
Main ==
    /\ cli.pc = "returned"
    /\ run.pc = "idle"
    /\ run' = [pc |-> "start", files |-> cli.files,
               options |-> [overwrite |-> FALSE, help |-> FALSE,
                            version |-> FALSE, listGpus |-> FALSE],
               inputs |-> <<>>, rejection |-> "", errors |-> <<>>,
               writes |-> 0, written |-> <<>>,
               done |-> FALSE, exitCode |-> -1, loaded |-> -1]
    /\ UNCHANGED <<pipeVars, cli, idleVars>>

LineReadFile == ReadFileOf(OutTables)

LineNext ==
    \/ ParseOptions
    \/ LinePositional
    \/ LineOption
    \/ Return
    \/ Main
    \/ Usage
    \/ Begin
    \/ CheckOutput
    \/ LineReadFile
    \/ Process
    \/ Catch
    \/ Finish
    \/ WriteFile

SpecLine == LineInit /\ [][LineNext]_vars

\* ---- the claims about the command line

\* the places of the positional tokens in the line
Places == {p \in 1..Len(cli.line) : cli.line[p].kind = "positional"}

\* the place of the k-th positional token
PlaceOf(k) ==
    CHOOSE p \in Places : Cardinality({q \in Places : q < p}) = k - 1

\* the place the tokens of the k-th file end before
EndOf(k) ==
    IF k = Cardinality(Places) THEN Len(cli.line) + 1 ELSE PlaceOf(k + 1)

\* the actions of the option tokens from place p up to place q - 1
RECURSIVE ActionsBetween(_, _)
ActionsBetween(p, q) ==
    IF p >= q THEN <<>>
    ELSE OptionValue(cli.line[p]).value \o ActionsBetween(p + 1, q)

\* the files are the positional tokens in order, each with the actions of
\* the option tokens between it and the next positional token, in order
FilesFollowLine ==
    /\ Len(cli.files) = Cardinality(Places)
    /\ \A k \in 1..Len(cli.files) :
          /\ cli.files[k].filename = cli.line[PlaceOf(k)].value
          /\ cli.files[k].processActions
                = ActionsBetween(PlaceOf(k) + 1, EndOf(k))

C29_WitnessUsage ==
    /\ Cardinality(Places) = 1
    /\ Len(cli.line) > 1
    /\ run.pc = "exited"
    /\ run.errors = <<"usage">>

\* ------------------------------------------------------- the device creator
\* main hands writeFile the function deviceCreator unless the device index
\* is -2. dev holds cachedDevice (0 for undefined), the number of calls of
\* createDevice, and for every call of deviceCreator where it stands: it
\* has not been made, it awaits enumerateAdapters, it awaits createDevice,
\* it has resolved with a device, or it has rejected. Every call of
\* createDevice that resolves makes a device of its own, numbered by the
\* call.

MaxDeviceCalls == 3

\* the device indices: CPU, automatic, an adapter there is, one there is not
DeviceIndices == {-2, -1, 0, 1}

\* the adapters enumerateAdapters lists
NumAdapters == 1

NotCalled == [pc |-> "none", device |-> 0, result |-> 0]

DeviceInit ==
    /\ \E deviceIdx \in DeviceIndices :
          dev = [pc |-> "writing", deviceIdx |-> deviceIdx,
                 hasCreator |-> deviceIdx # -2,
                 cachedDevice |-> 0, created |-> 0, warned |-> 0,
                 calls |-> [k \in 1..MaxDeviceCalls |-> NotCalled]]
    /\ st = enter(<<>>, <<>>)
    /\ input0 = st
    /\ prev = st
    /\ log = <<>>
    /\ cli = CliIdle
    /\ run = RunIdle
    /\ ply = PlyIdle
    /\ rot = RotIdle

\* createDevice(adapterName) is called by call k: the device it will make
CreateDevice(d, k) ==
    [d EXCEPT !.created = @ + 1,
              !.calls[k] = [pc |-> "creating", device |-> d.created + 1,
                            result |-> 0]]

\* deviceCreator() up to its first await
deviceCreator(d, k) ==
    IF d.cachedDevice # 0
    THEN [d EXCEPT !.calls[k] = [pc |-> "resolved", device |-> 0,
                                 result |-> d.cachedDevice]]
    ELSE IF d.deviceIdx >= 0
         THEN [d EXCEPT !.calls[k].pc = "enumerating"]
    ELSE CreateDevice(d, k)

\* writeFile calls the creator it was handed, whether or not an earlier
\* call has resolved
CallCreator ==
    /\ dev.pc = "writing"
    /\ dev.hasCreator
    /\ \E k \in 1..MaxDeviceCalls :
          /\ dev.calls[k].pc = "none"
          /\ \A j \in 1..(k - 1) : dev.calls[j].pc # "none"
          /\ dev' = deviceCreator(dev, k)
    /\ UNCHANGED <<pipeVars, cli, run, ply, rot>>

\* await enumerateAdapters() of call k returns: the adapter is found or the
\* warning is logged, and createDevice is called
AdaptersEnumerated ==
    /\ dev.pc = "writing"
    /\ \E k \in 1..MaxDeviceCalls :
          /\ dev.calls[k].pc = "enumerating"
          /\ dev' = CreateDevice(
                       IF dev.deviceIdx < NumAdapters THEN dev
                       ELSE [dev EXCEPT !.warned = @ + 1], k)
    /\ UNCHANGED <<pipeVars, cli, run, ply, rot>>

\* enumerateAdapters or createDevice of call k rejects, and so does the call
DeviceFailed ==
    /\ dev.pc = "writing"
    /\ \E k \in 1..MaxDeviceCalls :
          /\ dev.calls[k].pc \in {"enumerating", "creating"}
          /\ dev' = [dev EXCEPT !.calls[k].pc = "rejected"]
    /\ UNCHANGED <<pipeVars, cli, run, ply, rot>>

\* cachedDevice = await createDevice(adapterName); return cachedDevice
DeviceCreated ==
    /\ dev.pc = "writing"
    /\ \E k \in 1..MaxDeviceCalls :
          /\ dev.calls[k].pc = "creating"
          /\ dev' = [dev EXCEPT !.cachedDevice = dev.calls[k].device,
                                !.calls[k].pc = "resolved",
                                !.calls[k].result = dev.calls[k].device]
    /\ UNCHANGED <<pipeVars, cli, run, ply, rot>>

DeviceNext == CallCreator \/ AdaptersEnumerated \/ DeviceFailed \/ DeviceCreated

SpecDevice == DeviceInit /\ [][DeviceNext]_vars

\* ---- the claims about the device

ResolvedCalls == {k \in 1..MaxDeviceCalls : dev.calls[k].pc = "resolved"}

\* C30: whatever calls of deviceCreator are made, overlapping ones
\* included, createDevice is called at most once and every call that
\* resolves resolves to the same device; with the device index -2 there is
\* no deviceCreator and createDevice is never called.
C30_DeviceOnce ==
    /\ dev.created <= 1
    /\ \A j, k \in ResolvedCalls : dev.calls[j].result = dev.calls[k].result
    /\ dev.deviceIdx = -2 =>
          /\ ~dev.hasCreator
          /\ dev.created = 0
          /\ \A k \in 1..MaxDeviceCalls : dev.calls[k].pc = "none"

====
